---- MODULE Spec2Model ----
(***************************************************************************)
(* CryptoBreaker: the Caesar / substitution / Vigenere breakers.           *)
(*                                                                         *)
(* Characters are their ASCII codes, strings are sequences of codes.       *)
(* Fitness values (C++ doubles in [0,1]) are integers in tenths: the       *)
(* chi-squared / IC / n-gram arithmetic is not computed, a call draws the  *)
(* fitness of its candidates from 0..MaxLevel.                             *)
(***************************************************************************)
EXTENDS Integers, Sequences, FiniteSets, TLC

(***************************************************************************)
(* Bounds of the model                                                     *)
(***************************************************************************)
MaxTextLen == 3
MaxKeyLen == 2
\* texts handed to the Caesar breaker
MaxCaesarLen == 2
\* fitness levels 0..MaxLevel, in tenths
MaxLevel == 2
\* std::thread::hardware_concurrency() is in 1..MaxHw
MaxHw == 2
\* key lengths breakCipher tries concurrently
MaxTasks == 2
\* iterations of a mapping search that are followed
MaxSteps == 2

Min(a, b) == IF a < b THEN a ELSE b
Max(a, b) == IF a > b THEN a ELSE b

(***************************************************************************)
(* <cctype> on ASCII and the C++ remainder                                 *)
(***************************************************************************)
isupper(c) == c >= 65 /\ c <= 90
islower(c) == c >= 97 /\ c <= 122
isalpha(c) == isupper(c) \/ islower(c)
toupper(c) == IF islower(c) THEN c - 32 ELSE c
tolower(c) == IF isupper(c) THEN c + 32 ELSE c

\* a % b of C++ (b # 0): the quotient truncates toward zero
CRem(a, b) ==
    LET m == IF b < 0 THEN 0 - b ELSE b
    IN  IF a >= 0 THEN a % m ELSE 0 - ((0 - a) % m)

(***************************************************************************)
(* Utils                                                                   *)
(***************************************************************************)
toUpperCase(text) == [i \in 1..Len(text) |-> toupper(text[i])]
removeNonAlpha(text) == SelectSeq(text, isalpha)
normalizeText(text) == toUpperCase(removeNonAlpha(text))

alphaCount(text) == Len(removeNonAlpha(text))
\* alphaCount >= text.length() * 0.5, written without the double
isValidInput(text) == text # <<>> /\ 2 * alphaCount(text) >= Len(text)
validateInput(ciphertext) == ciphertext # <<>> /\ isValidInput(ciphertext)

(***************************************************************************)
(* CaesarBreaker: the shift, encrypt and decrypt                           *)
(***************************************************************************)
caesarShiftChar(c, shift) ==
    IF ~isalpha(c) THEN c
    ELSE LET base == IF isupper(c) THEN 65 ELSE 97
         IN  CRem(c - base + shift, 26) + base

caesarShift(text, shift) == [i \in 1..Len(text) |-> caesarShiftChar(text[i], shift)]

CaesarDecrypt(ciphertext, key) == caesarShift(ciphertext, key)
CaesarEncrypt(plaintext, key) == caesarShift(plaintext, 26 - key)

(***************************************************************************)
(* VigenereBreaker: the shift, encrypt and decrypt                         *)
(***************************************************************************)
charToShift(c) == IF isalpha(c) THEN toupper(c) - 65 ELSE 0
shiftToChar(shift) == 65 + CRem(shift, 26)

vigenereShift(c, shift) ==
    IF ~isalpha(c) THEN c
    ELSE LET base == IF isupper(c) THEN 65 ELSE 97
         IN  CRem(c - base + shift, 26) + base

\* key[i % key.length()] for the 0-based index i
keyCharAt(key, i) == key[(i % Len(key)) + 1]

VigenereEncrypt(plaintext, key) ==
    IF key = <<>> THEN plaintext
    ELSE [i \in 1..Len(plaintext) |->
            IF isalpha(plaintext[i])
            THEN vigenereShift(plaintext[i], charToShift(toupper(keyCharAt(key, i - 1))))
            ELSE plaintext[i]]

VigenereDecryptNoInvert(ciphertext, key) ==
    IF key = <<>> THEN ciphertext
    ELSE [i \in 1..Len(ciphertext) |->
            IF isalpha(ciphertext[i])
            THEN vigenereShift(ciphertext[i], charToShift(toupper(keyCharAt(key, i - 1))))
            ELSE ciphertext[i]]

VigenereDecrypt(ciphertext, key) ==
    IF key = <<>> THEN ciphertext
    ELSE [i \in 1..Len(ciphertext) |->
            IF isalpha(ciphertext[i])
            THEN vigenereShift(ciphertext[i], 26 - charToShift(toupper(keyCharAt(key, i - 1))))
            ELSE ciphertext[i]]

\* a split that starts the columns one character late
keyPositionOneLate(i, keyLength) == (i + 1) % keyLength
\* int position = i % keyLength
keyPosition(i, keyLength) == i % keyLength

\* the loop of splitByKeyPosition from index i (0-based) on: substrings[position] += text[i]
RECURSIVE splitFrom(_, _, _, _)
splitFrom(t, keyLength, i, substrings) ==
    IF i >= Len(t) THEN substrings
    ELSE splitFrom(t, keyLength, i + 1,
                   [substrings EXCEPT ![keyPosition(i, keyLength) + 1] = Append(@, t[i + 1])])

\* std::vector<std::string> substrings(keyLength), then the loop; keyLength >= 1
splitByKeyPosition(t, keyLength) ==
    splitFrom(t, keyLength, 0, [p \in 1..keyLength |-> <<>>])

(***************************************************************************)
(* Inputs                                                                  *)
(***************************************************************************)
\* 'A' 'K' 'Z' 'h' ' ' '3'
InChars == {65, 75, 90, 104, 32, 51}
\* 'A' 'K' 'y' '3'
KeyChars == {65, 75, 121, 51}

SeqsUpTo(S, n) == UNION {[1..k -> S] : k \in 0..n}

\* "KHOOR ZRUOG", "URYYB JBEYQ", "HELLO WORLD"
KHOOR_ZRUOG == <<75, 72, 79, 79, 82, 32, 90, 82, 85, 79, 71>>
URYYB_JBEYQ == <<85, 82, 89, 89, 66, 32, 74, 66, 69, 89, 81>>
HELLO_WORLD == <<72, 69, 76, 76, 79, 32, 87, 79, 82, 76, 68>>

Texts == SeqsUpTo(InChars, MaxTextLen) \cup {KHOOR_ZRUOG, URYYB_JBEYQ, HELLO_WORLD}
Keywords == SeqsUpTo(KeyChars, MaxKeyLen) \ {<<>>}
Shifts == 0..25

(***************************************************************************)
(* State                                                                   *)
(***************************************************************************)
VARIABLES
    text,       \* the string handed to the cipher functions
    shift,      \* the Caesar key
    keyword,    \* the Vigenere key
    cipher,     \* what encrypt returned
    result,     \* what decrypt returned
    op,         \* the last function applied
    \* the CaesarBreaker object and its surroundings
    confidence,     \* CipherBreaker::confidence
    minTextLength,  \* CaesarBreaker::minTextLength
    lastAnalysis,   \* CaesarBreaker::lastAnalysis
    keyScores,      \* what the last findPossibleKeys returned
    bestKey,        \* what the last findBestKey returned
    arg,            \* the ciphertext of the last call
    status,         \* how the last call ended
    fitness,        \* the fitness of the 26 candidates of the ciphertext
    tieOffset,      \* the order std::sort leaves equal scores in
    hwConcurrency,  \* std::thread::hardware_concurrency()
    \* the VigenereBreaker object and its surroundings
    preferred,      \* the candidate texts the statistics rate high
    winningShifts,  \* what caesarBreaker.findBestKey returned, column by column
    foundKey,       \* what the last findKey returned
    minKeyLength,   \* VigenereBreaker::minKeyLength
    maxKeyLength,   \* VigenereBreaker::maxKeyLength
    analysisResults,        \* VigenereBreaker::analysisResults
    candidateKeyLengths,    \* what the last findKeyLength returned
    vigenereConfidence,     \* CipherBreaker::confidence of the VigenereBreaker
    tasks,                  \* the std::async tasks of breakCipher, one per key length
    \* the SubstitutionBreaker object and its surroundings
    optimizationMethod,     \* SubstitutionBreaker::optimizationMethod
    maxIterations,          \* SubstitutionBreaker::maxIterations
    optimizationHistory,    \* SubstitutionBreaker::optimizationHistory
    substitutionConfidence, \* CipherBreaker::confidence of the SubstitutionBreaker
    phase,          \* where breakCipher stands
    mapping,        \* the working mapping of the search (currentMapping)
    bestMapping,    \* bestMapping of simulatedAnnealing
    currentScore,   \* currentScore of the search
    bestScore,      \* bestScore of simulatedAnnealing
    iteration,      \* the loop counter of the search
    budget,         \* the maxIterations argument of the search
    bigramIndex,    \* the loop counter of improveMappingWithBigrams
    scoreMemo,      \* the fitness of the plaintexts scored so far
    firstRun,       \* what a test kept of the run of its first SubstitutionBreaker
    \* one candidate plaintext in front of the three scorers
    statistics,     \* the sub-scores the analyzers give the candidate, in tenths
    scores,         \* what each breaker's scorePlaintext returns for it, in hundredths
    solutions,      \* what getPossibleSolutions returned
    \* one call of splitByKeyPosition
    splitLength,    \* its keyLength argument
    splitResult,    \* the vector it returned
    \* findRepeatingSubstrings inside one breakCipher, iteration by iteration
    searchIndex,    \* the loop variable i
    patterns,       \* the map patterns: the pairs <<substring, position>>
    \* one call of FrequencyAnalyzer::calculateIndexOfCoincidence
    runs,           \* its text, as runs <<character, length>>
    coincidence     \* what it returned: <<numerator, denominator>>

cipherVars == <<text, shift, keyword, cipher, result, op>>
caesarVars == <<confidence, minTextLength, lastAnalysis, keyScores, bestKey,
                arg, status, fitness, tieOffset, hwConcurrency>>
vigenereVars == <<preferred, winningShifts, foundKey, minKeyLength, maxKeyLength,
                  analysisResults, candidateKeyLengths, vigenereConfidence, tasks>>
substitutionVars == <<optimizationMethod, maxIterations, optimizationHistory,
                      substitutionConfidence, phase, mapping, bestMapping, currentScore,
                      bestScore, iteration, budget, bigramIndex, scoreMemo, firstRun>>
scorerVars == <<statistics, scores>>
splitVars == <<splitLength, splitResult>>
searchVars == <<searchIndex, patterns>>
coincidenceVars == <<runs, coincidence>>
\* what the cipher functions and the calls on one breaker leave alone
besideCipher == <<caesarVars, vigenereVars, substitutionVars, scorerVars, solutions,
                  splitVars, searchVars, coincidenceVars>>
besideCaesar == <<vigenereVars, substitutionVars, scorerVars, solutions,
                  splitVars, searchVars, coincidenceVars>>
vars == <<cipherVars, caesarVars, vigenereVars, substitutionVars, scorerVars, solutions,
          splitVars, searchVars, coincidenceVars>>

(***************************************************************************)
(* CaesarBreaker: scoring and the search over the 26 keys                  *)
(***************************************************************************)
\* CaesarBreaker::CaesarBreaker
DefaultMinTextLength == 20
\* VigenereBreaker::VigenereBreaker
DefaultMinKeyLength == 2
DefaultMaxKeyLength == 20
DefaultMinSubstringLength == 3

EmptyMap == [k \in {} |-> 0]

\* the fitness the statistics give the candidate of key k
Fit(f, k) == IF k \in f.top THEN f.hi ELSE f.lo

\* size_t a - b wraps around below zero: the loop bound becomes 2^64 - (b - a)
WrapsBelowZero(a, b) == a < b

\* for (i = 0; i < length - n; i++) substr(i, ...): with a wrapped bound i
\* passes length and substr throws std::out_of_range at i = length + 1
NGramLoopThrows(length, n) == WrapsBelowZero(length, n)

\* scoreText reaches findCommonBigrams (the bigram loop, n = 1) past the guard
scoreTextThrows(t, minLen) ==
    ~(Len(t) < minLen) /\ NGramLoopThrows(Len(normalizeText(t)), 1)

scoreText(t, minLen, fit) == IF Len(t) < minLen THEN 0 ELSE fit

numThreads(hw) == Min(26, hw)
\* the division rounded down
keysPerThreadRoundedDown(n) == 26 \div n
\* (26 + numThreads - 1) / numThreads
keysPerThread(n) == (26 + n - 1) \div n
startKey(threadId, n) == threadId * keysPerThread(n)
endKey(threadId, n) == Min(startKey(threadId, n) + keysPerThread(n), 26)

RECURSIVE KeyRange(_, _)
KeyRange(a, b) == IF a >= b THEN <<>> ELSE <<a>> \o KeyRange(a + 1, b)

\* the keys in the order the futures hand them over
RECURSIVE CollectKeys(_, _)
CollectKeys(threadId, n) ==
    IF threadId >= n \/ startKey(threadId, n) >= 26 THEN <<>>
    ELSE KeyRange(startKey(threadId, n), endKey(threadId, n)) \o CollectKeys(threadId + 1, n)

SeqRange(q) == {q[i] : i \in DOMAIN q}

\* std::sort with a.first < b.first
SortByKey(ks) == SortSeq(ks, LAMBDA a, b : a[1] < b[1])

ScoreBefore(a, b, tie) ==
    \/ a[2] > b[2]
    \/ a[2] = b[2] /\ ((a[1] - tie) % 26) < ((b[1] - tie) % 26)

ScoreBeforeAscending(a, b, tie) ==
    \/ a[2] < b[2]
    \/ a[2] = b[2] /\ ((a[1] - tie) % 26) < ((b[1] - tie) % 26)

SortByScoreAscending(ks, tie) == SortSeq(ks, LAMBDA a, b : ScoreBeforeAscending(a, b, tie))

\* std::sort with a.second > b.second; equal scores come out in the key
\* order rotated by tie
SortByScore(ks, tie) == SortSeq(ks, LAMBDA a, b : ScoreBefore(a, b, tie))

\* the confidence as a percentage of the difference, without the cap
CaesarConfidenceUncapped(ranked, conf) ==
    IF Len(ranked) >= 2 THEN (ranked[1][2] - ranked[2][2]) * 100 + 50 ELSE conf

\* confidence = min(100, scoreDiff * 10 + 50), the scores in tenths
CaesarConfidence(ranked, conf) ==
    IF Len(ranked) >= 2 THEN Min(100, (ranked[1][2] - ranked[2][2]) + 50) ELSE conf

findPossibleKeys(ciphertext, minLen, fit, tie, hw, conf, last) ==
    LET normalizedText == normalizeText(ciphertext)
        n == numThreads(hw)
        unchanged(st) == [status |-> st, keyScores |-> <<>>, confidence |-> conf,
                          lastAnalysis |-> last]
    IN  IF n = 0 THEN unchanged("crashed")
        ELSE IF scoreTextThrows(normalizedText, minLen) THEN unchanged("threw")
        ELSE
            LET keys == CollectKeys(0, n)
                collected == [i \in 1..Len(keys) |->
                                <<keys[i], scoreText(caesarShift(normalizedText, keys[i]),
                                                     minLen, Fit(fit, keys[i]))>>]
                ranked == SortByScore(SortByKey(collected), tie)
            IN  [status |-> "returned",
                 keyScores |-> ranked,
                 confidence |-> CaesarConfidence(ranked, conf),
                 lastAnalysis |-> [k \in (DOMAIN last) \cup SeqRange(keys) |->
                                     IF k \in SeqRange(keys)
                                     THEN scoreText(caesarShift(normalizedText, k),
                                                    minLen, Fit(fit, k))
                                     ELSE last[k]]]

findBestKey(ranked) == IF ranked = <<>> THEN 0 ELSE ranked[1][1]

(***************************************************************************)
(* Inputs of the Caesar breaker                                            *)
(***************************************************************************)
\* 'z' '3'
CaesarChars == {122, 51}
\* "A33" and "Az3"
CaesarTexts == SeqsUpTo(CaesarChars, MaxCaesarLen) \cup {<<65, 51, 51>>, <<65, 122, 51>>}
\* "" and "33"
InvalidInputs == {<<>>, <<51, 51>>}
MinTextLengths == {0, DefaultMinTextLength}
TieOffsets == {0, 13}

\* the scorer prefers the original, a neighbour, two candidates alike, or none
FlatOracles == {[top |-> {}, hi |-> l, lo |-> l] : l \in {0, MaxLevel}}
Oracles(s) ==
    {[top |-> t, hi |-> MaxLevel, lo |-> 0] :
        t \in {{s}, {(s + 1) % 26}, {s, (s + 1) % 26}}}
    \cup FlatOracles

CaesarIdle ==
    /\ confidence = 0
    /\ minTextLength = DefaultMinTextLength
    /\ lastAnalysis = EmptyMap
    /\ keyScores = <<>>
    /\ bestKey = 0
    /\ arg = <<>>
    /\ status = "idle"
    /\ fitness = [top |-> {}, hi |-> 0, lo |-> 0]
    /\ tieOffset = 0
    /\ hwConcurrency = 1

VigenereIdle ==
    /\ preferred = {}
    /\ winningShifts = <<>>
    /\ foundKey = <<>>
    /\ minKeyLength = DefaultMinKeyLength
    /\ maxKeyLength = DefaultMaxKeyLength
    /\ analysisResults = [kasiski |-> <<>>, ic |-> <<>>]
    /\ candidateKeyLengths = <<>>
    /\ vigenereConfidence = 0
    /\ tasks = <<>>

\* SubstitutionBreaker::SubstitutionBreaker
DefaultMaxIterations == 1000

SubstitutionIdle ==
    /\ optimizationMethod = "hybrid"
    /\ maxIterations = DefaultMaxIterations
    /\ optimizationHistory = <<>>
    /\ substitutionConfidence = 0
    /\ phase = "idle"
    /\ mapping = EmptyMap
    /\ bestMapping = EmptyMap
    /\ currentScore = 0
    /\ bestScore = 0
    /\ iteration = 0
    /\ budget = 0
    /\ bigramIndex = 0
    /\ scoreMemo = EmptyMap
    /\ firstRun = <<>>

NoStatistics ==
    [unigram |-> 0, bigram |-> 0, trigram |-> 0, word |-> 0, ic |-> 0, pattern |-> 0]
NoScores == [caesar |-> 0, vigenere |-> 0, substitution |-> 0]

\* size_t i = 0, as <<multiples of 2^31, remainder>>
SearchStart == [high |-> 0, low |-> 0]
SearchIdle == searchIndex = SearchStart /\ patterns = {}

CoincidenceIdle == runs = <<>> /\ coincidence = <<>>

SplitIdle == splitLength = 0 /\ splitResult = <<>>

ScorerIdle ==
    /\ statistics = NoStatistics
    /\ scores = NoScores

(***************************************************************************)
(* The cipher functions applied to drawn inputs                            *)
(***************************************************************************)
InitCipher ==
    /\ text \in Texts
    /\ \/ shift \in Shifts /\ keyword = <<>>
       \/ shift = 0 /\ keyword \in Keywords
    /\ cipher = <<>>
    /\ result = <<>>
    /\ op = "init"
    /\ CaesarIdle
    /\ VigenereIdle
    /\ SubstitutionIdle
    /\ ScorerIdle
    /\ solutions = <<>>
    /\ SplitIdle
    /\ SearchIdle
    /\ CoincidenceIdle

\* breaker.decrypt(text, key)
CaesarDecryptText ==
    /\ op = "init"
    /\ result' = CaesarDecrypt(text, shift)
    /\ op' = "caesarDecrypt"
    /\ UNCHANGED <<text, shift, keyword, cipher>>
    /\ UNCHANGED besideCipher

\* breaker.encrypt(text, key)
CaesarEncryptText ==
    /\ op = "init"
    /\ cipher' = CaesarEncrypt(text, shift)
    /\ op' = "caesarEncrypt"
    /\ UNCHANGED <<text, shift, keyword, result>>
    /\ UNCHANGED besideCipher

\* breaker.decrypt(encrypted, key)
CaesarDecryptCipher ==
    /\ op = "caesarEncrypt"
    /\ result' = CaesarDecrypt(cipher, shift)
    /\ op' = "caesarRoundTrip"
    /\ UNCHANGED <<text, shift, keyword, cipher>>
    /\ UNCHANGED besideCipher

\* breaker.encrypt(text, keyword)
VigenereEncryptText ==
    /\ op = "init"
    /\ cipher' = VigenereEncrypt(text, keyword)
    /\ op' = "vigenereEncrypt"
    /\ UNCHANGED <<text, shift, keyword, result>>
    /\ UNCHANGED besideCipher

\* breaker.decrypt(encrypted, keyword)
VigenereDecryptCipher ==
    /\ op = "vigenereEncrypt"
    /\ result' = VigenereDecrypt(cipher, keyword)
    /\ op' = "vigenereRoundTrip"
    /\ UNCHANGED <<text, shift, keyword, cipher>>
    /\ UNCHANGED besideCipher

NextCipher ==
    \/ CaesarDecryptText
    \/ CaesarEncryptText
    \/ CaesarDecryptCipher
    \/ VigenereEncryptText
    \/ VigenereDecryptCipher

SpecCipher == InitCipher /\ [][NextCipher]_vars

(***************************************************************************)
(* One CaesarBreaker object and the calls made on it                       *)
(***************************************************************************)
InitCaesar ==
    /\ text \in CaesarTexts
    /\ shift \in Shifts
    /\ keyword = <<>>
    /\ cipher = CaesarEncrypt(text, shift)
    /\ result = <<>>
    /\ op = "init"
    /\ confidence = 0
    /\ minTextLength = DefaultMinTextLength
    /\ lastAnalysis = EmptyMap
    /\ keyScores = <<>>
    /\ bestKey = 0
    /\ arg = <<>>
    /\ status = "idle"
    \* candidates without a letter are one and the same text
    /\ fitness \in IF normalizeText(text) = <<>> THEN FlatOracles ELSE Oracles(shift)
    /\ tieOffset \in TieOffsets
    /\ hwConcurrency \in 1..MaxHw
    /\ VigenereIdle
    /\ SubstitutionIdle
    /\ ScorerIdle
    /\ solutions = <<>>
    /\ SplitIdle
    /\ SearchIdle
    /\ CoincidenceIdle

Alive == status \in {"idle", "returned"}

\* breaker.setMinimumTextLength(n), before the breaker is used
SetMinimumTextLength ==
    /\ op = "init"
    /\ \E n \in MinTextLengths : minTextLength' = n
    /\ op' = "setMinimumTextLength"
    /\ status' = "returned"
    /\ UNCHANGED <<text, shift, keyword, cipher, result>>
    /\ UNCHANGED <<confidence, lastAnalysis, keyScores, bestKey, arg, fitness,
                   tieOffset, hwConcurrency>>
    /\ UNCHANGED besideCaesar

\* breaker.findBestKey(ciphertext)
CaesarFindBestKey ==
    /\ Alive
    /\ \E r \in {findPossibleKeys(cipher, minTextLength, fitness, tieOffset,
                                  hwConcurrency, confidence, lastAnalysis)} :
           /\ status' = r.status
           /\ keyScores' = r.keyScores
           /\ confidence' = r.confidence
           /\ lastAnalysis' = r.lastAnalysis
           /\ bestKey' = IF r.status = "returned" THEN findBestKey(r.keyScores) ELSE bestKey
    /\ op' = "findBestKey"
    /\ arg' = cipher
    /\ UNCHANGED <<text, shift, keyword, cipher, result>>
    /\ UNCHANGED <<minTextLength, fitness, tieOffset, hwConcurrency>>
    /\ UNCHANGED besideCaesar

\* breaker.breakCipher(ciphertext)
CaesarBreakCipher ==
    /\ Alive
    /\ \E ct \in {cipher} \cup InvalidInputs :
        /\ arg' = ct
        /\ IF ~validateInput(ct)
           THEN /\ result' = <<>>
                /\ status' = "returned"
                /\ UNCHANGED <<keyScores, confidence, lastAnalysis, bestKey>>
           ELSE \E r \in {findPossibleKeys(ct, minTextLength, fitness, tieOffset,
                                           hwConcurrency, confidence, lastAnalysis)} :
                    /\ status' = r.status
                    /\ keyScores' = r.keyScores
                    /\ confidence' = r.confidence
                    /\ lastAnalysis' = r.lastAnalysis
                    /\ bestKey' = IF r.status = "returned" THEN findBestKey(r.keyScores)
                                  ELSE bestKey
                    /\ result' = IF r.status = "returned"
                                 THEN CaesarDecrypt(ct, findBestKey(r.keyScores))
                                 ELSE result
    /\ op' = "breakCipher"
    /\ UNCHANGED <<text, shift, keyword, cipher>>
    /\ UNCHANGED <<minTextLength, fitness, tieOffset, hwConcurrency>>
    /\ UNCHANGED besideCaesar

NextCaesar ==
    \/ SetMinimumTextLength
    \/ CaesarFindBestKey
    \/ CaesarBreakCipher

SpecCaesar == InitCaesar /\ [][NextCaesar]_vars

(***************************************************************************)
(* C3, C5                                                                  *)
(***************************************************************************)
\* the score findPossibleKeys gives the candidate of key k of the ciphertext
ScoreOfKey(k) ==
    scoreText(caesarShift(normalizeText(cipher), k), minTextLength, Fit(fitness, k))

RanksOriginalFirst == \A k \in Shifts \ {shift} : ScoreOfKey(shift) > ScoreOfKey(k)

\* C3 as stated: for every text with at least minTextLength letters the
\* candidate of key s of encrypt(text, s) is normalize(text), and when the scorer
\* ranks it strictly first findBestKey returns s and breakCipher the text.
C3_RecoversShiftAnyText ==
    (/\ op \in {"findBestKey", "breakCipher"}
     /\ arg = cipher
     /\ status = "returned"
     /\ Len(normalizeText(text)) >= minTextLength) =>
        /\ caesarShift(normalizeText(cipher), shift) = normalizeText(text)
        /\ RanksOriginalFirst =>
              /\ op = "findBestKey" => bestKey = shift
              /\ op = "breakCipher" => result = text

\* C3 amended: the same, breakCipher returning the text when the text is a
\* valid input (not empty, at least half of it letters).
C3_RecoversShift ==
    (/\ op \in {"findBestKey", "breakCipher"}
     /\ arg = cipher
     /\ status = "returned"
     /\ Len(normalizeText(text)) >= minTextLength) =>
        /\ caesarShift(normalizeText(cipher), shift) = normalizeText(text)
        /\ RanksOriginalFirst =>
              /\ op = "findBestKey" => bestKey = shift
              /\ (op = "breakCipher" /\ validateInput(text)) =>
                    bestKey = shift /\ result = text

\* breakCipher broke a mixed-case text with a digit, shifted by 7 and ranked
\* first by the scorer
C3_Witness ==
    /\ op = "breakCipher"
    /\ arg = cipher
    /\ status = "returned"
    /\ shift = 7
    /\ Len(normalizeText(text)) >= minTextLength
    /\ RanksOriginalFirst
    /\ text = <<65, 122, 51>>
    /\ cipher # text
    /\ result = text

\* C5: breakCipher on invalid input returns the empty string and leaves
\* getConfidence() = 0, whatever was called before.
C5_InvalidInputZeroConfidence ==
    (op = "breakCipher" /\ ~validateInput(arg)) => (result = <<>> /\ confidence = 0)

(***************************************************************************)
(* C1, C4                                                                  *)
(***************************************************************************)
\* rotation of every letter by -s within its case, other characters kept
RotateBack(t, s) ==
    [i \in 1..Len(t) |->
        IF isupper(t[i]) THEN 65 + ((t[i] - 65 - s) % 26)
        ELSE IF islower(t[i]) THEN 97 + ((t[i] - 97 - s) % 26)
        ELSE t[i]]

\* C1: decrypt(text, s) rotates every letter by -s within its case and keeps
\* every other character; decrypt("KHOOR ZRUOG", 3) = "HELLO WORLD".
C1_DecryptRotatesBack ==
    op = "caesarDecrypt" =>
        /\ result = RotateBack(text, shift)
        /\ (text = KHOOR_ZRUOG /\ shift = 3 => result = HELLO_WORLD)

\* C4: normalize(decrypt(encrypt(text, key), key)) = normalize(text) for every
\* Caesar key 0..25 and every non-empty Vigenere keyword.
C4_RoundTrip ==
    op \in {"caesarRoundTrip", "vigenereRoundTrip"} =>
        normalizeText(result) = normalizeText(text)

\* a Vigenere round trip of a text with letters of both cases and another
\* character, under a two-letter keyword that moved the letters
C4_Witness ==
    /\ op = "vigenereRoundTrip"
    /\ Len(keyword) = 2
    /\ \E i \in 1..Len(text) : isupper(text[i])
    /\ \E i \in 1..Len(text) : islower(text[i])
    /\ \E i \in 1..Len(text) : ~isalpha(text[i])
    /\ \A i \in 1..Len(text) : isalpha(text[i]) => cipher[i] # text[i]

(***************************************************************************)
(* VigenereBreaker: the key, column by column                              *)
(***************************************************************************)
\* the fitness of the 26 candidates of a column: high for the preferred texts
ColumnFitness(column, pref) ==
    [top |-> {k \in Shifts : caesarShift(normalizeText(column), k) \in pref},
     hi |-> MaxLevel, lo |-> 0]

\* findSubkey on one column, st the state before it: the embedded Caesar
\* breaker ranks the 26 shifts and the first becomes the key character
findSubkey(subtextCipher, st, minLen, pref, tie, hw) ==
    IF subtextCipher = <<>>
    THEN [st EXCEPT !.shifts = @ \o <<0>>, !.key = @ \o <<65>>]
    ELSE CHOOSE after \in
            {IF r.status = "returned"
             THEN [status |-> "returned",
                   shifts |-> st.shifts \o <<findBestKey(r.keyScores)>>,
                   key |-> st.key \o <<shiftToChar(findBestKey(r.keyScores))>>,
                   confidence |-> r.confidence,
                   lastAnalysis |-> r.lastAnalysis]
             ELSE [st EXCEPT !.status = r.status]
             : r \in {findPossibleKeys(subtextCipher, minLen,
                                       ColumnFitness(subtextCipher, pref), tie, hw,
                                       st.confidence, st.lastAnalysis)}} : TRUE

RECURSIVE findKeyFrom(_, _, _, _, _, _, _)
findKeyFrom(substrings, position, st, minLen, pref, tie, hw) ==
    IF position > Len(substrings) \/ st.status # "returned" THEN st
    ELSE findKeyFrom(substrings, position + 1,
                     findSubkey(substrings[position], st, minLen, pref, tie, hw),
                     minLen, pref, tie, hw)

\* findKey(ciphertext, keyLength) with the state of the embedded Caesar breaker
findKey(ciphertext, keyLength, minLen, pref, tie, hw, conf, last) ==
    findKeyFrom(splitByKeyPosition(normalizeText(ciphertext), keyLength), 1,
                [status |-> "returned", shifts |-> <<>>, key |-> <<>>,
                 confidence |-> conf, lastAnalysis |-> last],
                minLen, pref, tie, hw)

(***************************************************************************)
(* Inputs of the key recovery                                              *)
(***************************************************************************)
\* 'A' 'h'
PlainLetters == {65, 104}
\* 'A' 'K' 'N'
KeyLetters == {65, 75, 78}
Repeat(c, n) == [i \in 1..n |-> c]
\* short letter-only texts, and texts whose columns reach minTextLength
PlainTexts ==
    (SeqsUpTo(PlainLetters, MaxTextLen) \ {<<>>})
    \cup {Repeat(104, DefaultMinTextLength * l) : l \in 1..MaxKeyLen}
LetterKeys == SeqsUpTo(KeyLetters, MaxKeyLen) \ {<<>>}

Columns(t, keyLength) ==
    {c \in SeqRange(splitByKeyPosition(normalizeText(t), keyLength)) : c # <<>>}

\* the statistics rate the columns of the plaintext high, or their
\* neighbours, or nothing
Preferences(t, keyLength) ==
    {Columns(t, keyLength), {caesarShift(c, 1) : c \in Columns(t, keyLength)}, {}}

(***************************************************************************)
(* findKey on the encryption of a text, then decrypt with the key found    *)
(***************************************************************************)
InitFindKey ==
    /\ text \in PlainTexts
    /\ keyword \in LetterKeys
    /\ shift = 0
    /\ cipher = VigenereEncrypt(text, keyword)
    /\ result = <<>>
    /\ op = "init"
    /\ confidence = 0
    /\ minTextLength = DefaultMinTextLength
    /\ lastAnalysis = EmptyMap
    /\ keyScores = <<>>
    /\ bestKey = 0
    /\ arg = <<>>
    /\ status = "idle"
    /\ fitness = [top |-> {}, hi |-> 0, lo |-> 0]
    /\ tieOffset \in TieOffsets
    /\ hwConcurrency = MaxHw
    /\ preferred \in Preferences(text, Len(keyword))
    /\ winningShifts = <<>>
    /\ foundKey = <<>>
    /\ minKeyLength = DefaultMinKeyLength
    /\ maxKeyLength = DefaultMaxKeyLength
    /\ analysisResults = [kasiski |-> <<>>, ic |-> <<>>]
    /\ candidateKeyLengths = <<>>
    /\ vigenereConfidence = 0
    /\ tasks = <<>>
    /\ SubstitutionIdle
    /\ ScorerIdle
    /\ solutions = <<>>
    /\ SplitIdle
    /\ SearchIdle
    /\ CoincidenceIdle

\* breaker.findKey(ciphertext, keyLength)
VigenereFindKey ==
    /\ op = "init"
    /\ \E st \in {findKey(cipher, Len(keyword), minTextLength, preferred, tieOffset,
                          hwConcurrency, confidence, lastAnalysis)} :
           /\ status' = st.status
           /\ winningShifts' = st.shifts
           /\ foundKey' = st.key
           /\ confidence' = st.confidence
           /\ lastAnalysis' = st.lastAnalysis
    /\ op' = "findKey"
    /\ arg' = cipher
    /\ UNCHANGED substitutionVars
    /\ UNCHANGED scorerVars
    /\ UNCHANGED splitVars
    /\ UNCHANGED searchVars
    /\ UNCHANGED coincidenceVars
    /\ UNCHANGED solutions
    /\ UNCHANGED <<text, shift, keyword, cipher, result>>
    /\ UNCHANGED <<minTextLength, keyScores, bestKey, fitness, tieOffset, hwConcurrency>>
    /\ UNCHANGED <<preferred, minKeyLength, maxKeyLength, analysisResults,
                   candidateKeyLengths, vigenereConfidence, tasks>>

\* breaker.decrypt(ciphertext, key) with the key found
VigenereDecryptFound ==
    /\ op = "findKey"
    /\ status = "returned"
    /\ result' = VigenereDecrypt(cipher, foundKey)
    /\ op' = "decryptFound"
    /\ UNCHANGED substitutionVars
    /\ UNCHANGED scorerVars
    /\ UNCHANGED splitVars
    /\ UNCHANGED searchVars
    /\ UNCHANGED coincidenceVars
    /\ UNCHANGED solutions
    /\ UNCHANGED <<text, shift, keyword, cipher>>
    /\ UNCHANGED caesarVars
    /\ UNCHANGED <<preferred, winningShifts, foundKey, minKeyLength, maxKeyLength,
                   analysisResults, candidateKeyLengths, vigenereConfidence, tasks>>

NextFindKey ==
    \/ VigenereFindKey
    \/ VigenereDecryptFound

SpecFindKey == InitFindKey /\ [][NextFindKey]_vars

(***************************************************************************)
(* C2                                                                      *)
(***************************************************************************)
\* in every column the winning shift is the one whose candidate is the
\* column of the plaintext
WinnersDecryptColumns ==
    LET cs == splitByKeyPosition(normalizeText(cipher), Len(keyword))
        ps == splitByKeyPosition(normalizeText(text), Len(keyword))
    IN  /\ Len(winningShifts) = Len(keyword)
        /\ \A i \in 1..Len(keyword) :
              cs[i] # <<>> /\ caesarShift(cs[i], winningShifts[i]) = ps[i]

\* C2: for C = encrypt(P, K), P of letters only, when in every column the
\* winning shift is the one that decrypts the column, findKey(C, |K|) = K, key
\* character i being 'A' + the winning shift of column i, and
\* decrypt(C, findKey(C, |K|)) = P.
C2_FindKeyRecoversKey ==
    (op \in {"findKey", "decryptFound"} /\ status = "returned" /\ WinnersDecryptColumns) =>
        /\ \A i \in 1..Len(keyword) : foundKey[i] = 65 + winningShifts[i]
        /\ foundKey = keyword
        /\ op = "decryptFound" => result = text

(***************************************************************************)
(* VigenereBreaker: the key length (Kasiski, index of coincidence)         *)
(* The doubles of this part are exact fractions <<numerator, denominator>>. *)
(***************************************************************************)
\* the longest substring findRepeatingSubstrings looks at
MaxSubstringLength == 10

RECURSIVE Gcd(_, _)
Gcd(a, b) == IF b = 0 THEN a ELSE Gcd(b, a % b)

Frac(n, d) == IF n = 0 THEN <<0, 1>> ELSE <<n \div Gcd(n, d), d \div Gcd(n, d)>>
FracAdd(a, b) == Frac(a[1] * b[2] + b[1] * a[2], a[2] * b[2])
FracLess(a, b) == a[1] * b[2] < b[1] * a[2]

RECURSIVE FracSum(_)
FracSum(fs) == IF fs = <<>> THEN <<0, 1>> ELSE FracAdd(Head(fs), FracSum(Tail(fs)))

\* the 0-based positions of the occurrences of s in t, ascending
Positions(t, s) ==
    SelectSeq(KeyRange(0, Len(t) - Len(s) + 1),
              LAMBDA i : SubSeq(t, i + 1, i + Len(s)) = s)

\* i <= text.length() - minLength with a wrapped bound: i runs past the end
\* of the text until (int)(length - i) turns positive and substr throws
findRepeatingSubstringsThrows(t, minLength) == WrapsBelowZero(Len(t), minLength)

\* the substrings that occur at least twice
findRepeatingSubstrings(t, minLength) ==
    {s \in {SubSeq(t, p[1] + 1, p[1] + p[2]) :
                p \in {q \in (0..(Len(t) - minLength)) \X (minLength..MaxSubstringLength) :
                          q[2] <= Len(t) - q[1]}} :
        Len(Positions(t, s)) >= 2}

\* allDistances: one entry <<pattern, occurrence, distance>> per later
\* occurrence of a repeating pattern
allDistances(t, minLength, minK) ==
    {d \in UNION {{<<s, i, Positions(t, s)[i] - Positions(t, s)[1]>> :
                      i \in 2..Len(Positions(t, s))} :
                  s \in findRepeatingSubstrings(t, minLength)} :
        d[3] >= minK}

\* the factors the loop of analyzeDistancePatterns tries for one distance
FactorsTried(distance, minK, maxK) == minK..Min(maxK, distance)

\* distance % 0
KasiskiDividesByZero(distances, minK, maxK) ==
    \E d \in distances : 0 \in FactorsTried(d[3], minK, maxK)

factorCounts(distances, minK, maxK) ==
    [f \in {g \in minK..maxK : g # 0 /\ \E d \in distances :
                g \in FactorsTried(d[3], minK, maxK) /\ CRem(d[3], g) = 0} |->
        Cardinality({d \in distances :
                        f \in FactorsTried(d[3], minK, maxK) /\ CRem(d[3], f) = 0})]

MaxOf(S) == CHOOSE m \in S : \A x \in S : x <= m

\* factor |-> count / maxCount
analyzeDistancePatterns(distances, minK, maxK) ==
    LET counts == factorCounts(distances, minK, maxK)
    IN  [f \in DOMAIN counts |->
            Frac(counts[f], MaxOf({counts[g] : g \in DOMAIN counts}))]

\* a sort that puts the lower score first
FracScoreBeforeAscending(a, b, tie) ==
    \/ FracLess(a[2], b[2])
    \/ a[2] = b[2] /\ ((a[1] - tie) % 26) < ((b[1] - tie) % 26)

\* std::sort with a.second > b.second on (length, score) pairs; equal
\* scores come out in the length order rotated by tie
FracScoreBefore(a, b, tie) ==
    \/ FracLess(b[2], a[2])
    \/ a[2] = b[2] /\ ((a[1] - tie) % 26) < ((b[1] - tie) % 26)

SortByFracScore(ps, tie) == SortSeq(ps, LAMBDA a, b : FracScoreBefore(a, b, tie))

\* a map<int, double> as the vector of its pairs, ascending in the key
RECURSIVE PairsOf(_)
PairsOf(m) ==
    IF DOMAIN m = {} THEN <<>>
    ELSE LET k == CHOOSE x \in DOMAIN m : \A y \in DOMAIN m : x <= y
         IN  <<<<k, m[k]>>>> \o PairsOf([x \in DOMAIN m \ {k} |-> m[x]])

kasiskiExamination(t, minLength, minK, maxK, tie) ==
    LET distances == allDistances(t, minLength, minK)
    IN  IF distances = {} THEN <<>>
        ELSE SortByFracScore(PairsOf(analyzeDistancePatterns(distances, minK, maxK)), tie)

letterCount(t, c) == Len(SelectSeq(t, LAMBDA x : isalpha(x) /\ toupper(x) = c))

RECURSIVE SumCounts(_, _)
SumCounts(t, c) ==
    IF c > 90 THEN 0
    ELSE letterCount(t, c) * (letterCount(t, c) - 1) + SumCounts(t, c + 1)

calculateIndexOfCoincidence(t) ==
    LET totalAlphaChars == alphaCount(t)
    IN  IF totalAlphaChars <= 1 THEN <<0, 1>>
        ELSE Frac(SumCounts(t, 65), totalAlphaChars * (totalAlphaChars - 1))

calculateICForKeyLength(t, keyLength) ==
    LET valid == SelectSeq(splitByKeyPosition(t, keyLength), LAMBDA c : Len(c) >= 2)
        totalIC == FracSum([j \in 1..Len(valid) |-> calculateIndexOfCoincidence(valid[j])])
    IN  IF Len(valid) > 0 THEN Frac(totalIC[1], totalIC[2] * Len(valid)) ELSE <<0, 1>>

\* std::vector<std::string>(keyLength) with a negative keyLength
SplitThrows(keyLength) == keyLength < 0
\* i % keyLength with keyLength 0
SplitDividesByZero(t, keyLength) == keyLength = 0 /\ t # <<>>

\* the lengths with a positive index of coincidence only
indexOfCoincidenceMethodPositive(t, minK, maxK, tie) ==
    SortByFracScore(
        SelectSeq([j \in 1..(maxK - minK + 1) |->
                      <<minK + j - 1, calculateICForKeyLength(t, minK + j - 1)>>],
                  LAMBDA p : p[2][1] > 0), tie)

indexOfCoincidenceMethod(t, minK, maxK, tie) ==
    SortByFracScore([j \in 1..(maxK - minK + 1) |->
                        <<minK + j - 1, calculateICForKeyLength(t, minK + j - 1)>>], tie)

PairKeys(ps) == {ps[j][1] : j \in DOMAIN ps}
PairValue(ps, k) ==
    IF k \in PairKeys(ps) THEN (CHOOSE j \in DOMAIN ps : ps[j][1] = k)
    ELSE 0

ScoreIn(ps, k) == IF k \in PairKeys(ps) THEN ps[PairValue(ps, k)][2] ELSE <<0, 1>>

\* 0.6 * kasiski + 0.4 * ic
combinedScore(kasiskiResults, icResults, k) ==
    LET ks == ScoreIn(kasiskiResults, k)
        is == ScoreIn(icResults, k)
    IN  FracAdd(Frac(6 * ks[1], 10 * ks[2]), Frac(4 * is[1], 10 * is[2]))

combineKeyLengthResults(kasiskiResults, icResults, tie) ==
    LET sortedResults ==
            SortByFracScore(
                PairsOf([k \in PairKeys(kasiskiResults) \cup PairKeys(icResults) |->
                            combinedScore(kasiskiResults, icResults, k)]), tie)
    IN  [j \in 1..Len(sortedResults) |-> sortedResults[j][1]]

(***************************************************************************)
(* VigenereBreaker::breakCipher                                            *)
(***************************************************************************)
\* scorePlaintext: 1 / (1 + chiSquared) is positive, in tenths 1..MaxLevel
scorePlaintext(plaintext, pref) ==
    IF normalizeText(plaintext) \in pref THEN MaxLevel ELSE 1

\* updateConfidence(score, 1.0), the score in tenths
updateConfidence(score) == Max(0, Min(100, score * 10))

\* how findKeyLength ends: the outcomes of a division by zero are a crash
\* or a run that goes on with a corrupted state
findKeyLengthOutcomes(normalizedText, minLength, minK, maxK) ==
    IF findRepeatingSubstringsThrows(normalizedText, minLength) THEN {"threw"}
    ELSE IF KasiskiDividesByZero(allDistances(normalizedText, minLength, minK), minK, maxK)
    THEN {"crashed", "corrupted"}
    ELSE IF minK > maxK THEN {"returned"}
    ELSE IF SplitThrows(minK) THEN {"threw"}
    ELSE IF SplitDividesByZero(normalizedText, minK) THEN {"crashed", "corrupted"}
    ELSE {"returned"}

findKeyLength(ciphertext, minLength, minK, maxK, tie) ==
    LET normalizedText == normalizeText(ciphertext)
    IN  CHOOSE found \in
            {[kasiski |-> k, ic |-> i, combined |-> combineKeyLengthResults(k, i, tie)] :
                <<k, i>> \in {<<kasiskiExamination(normalizedText, minLength, minK, maxK, tie),
                               indexOfCoincidenceMethod(normalizedText, minK, maxK, tie)>>}} :
            TRUE

\* one task of breakCipher: the key of a length, the decryption, its score
tryKeyLength(ciphertext, keyLength, minLen, pref, tie, hw, conf, last) ==
    CHOOSE tried \in
        {[key |-> st.key,
          decrypted |-> VigenereDecrypt(ciphertext, st.key),
          score |-> scorePlaintext(VigenereDecrypt(ciphertext, st.key), pref),
          keyLength |-> keyLength,
          confidence |-> st.confidence,
          lastAnalysis |-> st.lastAnalysis] :
            st \in {findKey(ciphertext, keyLength, minLen, pref, tie, hw, conf, last)}} :
        TRUE

\* a merge in which an equal score replaces the best so far
beatsOrTies(score, best) == score >= best

\* if (score > bestScore)
beats(score, best) == score > best

\* for (auto& future : futures) if (score > bestScore) ...
RECURSIVE bestOf(_, _, _)
bestOf(tried, j, best) ==
    IF j > Len(tried) THEN best
    ELSE bestOf(tried, j + 1, IF beats(tried[j].score, best.score) THEN tried[j] ELSE best)

NoResult == [key |-> <<>>, decrypted |-> <<>>, score |-> 0, keyLength |-> 0]

(***************************************************************************)
(* Inputs of the Vigenere breaker                                          *)
(***************************************************************************)
\* "ABC", "AAAAA", "ABCABC", "DXTJQWL VJEWP"
ABC == <<65, 66, 67>>
AAAAA == <<65, 65, 65, 65, 65>>
ABCABC == <<65, 66, 67, 65, 66, 67>>
DXTJQWL_VJEWP == <<68, 88, 84, 74, 81, 87, 76, 32, 86, 74, 69, 87, 80>>

BreakTexts == CaesarTexts \cup {ABC, AAAAA, ABCABC, DXTJQWL_VJEWP}
\* "A" "K" "AK"
BreakKeys == {<<65>>, <<75>>, <<65, 75>>}
\* setKeyLengthRange(minLen, maxLen): in range, inverted, below 1, above 20
KeyLengthMins == {0 - 1, 0, 1, 3}
KeyLengthMaxs == {2, DefaultMaxKeyLength + 1}

(***************************************************************************)
(* One VigenereBreaker object and the calls made on it                     *)
(***************************************************************************)
InitVigenere ==
    /\ text \in BreakTexts
    /\ keyword \in BreakKeys
    /\ shift = 0
    /\ cipher = VigenereEncrypt(text, keyword)
    /\ result = <<>>
    /\ op = "init"
    /\ confidence = 0
    /\ minTextLength = DefaultMinTextLength
    /\ lastAnalysis = EmptyMap
    /\ keyScores = <<>>
    /\ bestKey = 0
    /\ arg = <<>>
    /\ status = "idle"
    /\ fitness = [top |-> {}, hi |-> 0, lo |-> 0]
    /\ tieOffset \in TieOffsets
    /\ hwConcurrency = MaxHw
    /\ preferred \in {{normalizeText(text)} \cup Columns(text, Len(keyword)), {}}
    /\ winningShifts = <<>>
    /\ foundKey = <<>>
    /\ minKeyLength = DefaultMinKeyLength
    /\ maxKeyLength = DefaultMaxKeyLength
    /\ analysisResults = [kasiski |-> <<>>, ic |-> <<>>]
    /\ candidateKeyLengths = <<>>
    /\ vigenereConfidence = 0
    /\ tasks = <<>>
    /\ SubstitutionIdle
    /\ ScorerIdle
    /\ solutions = <<>>
    /\ SplitIdle
    /\ SearchIdle
    /\ CoincidenceIdle

\* breaker.setKeyLengthRange(minLen, maxLen), before the breaker is used
SetKeyLengthRange ==
    /\ op = "init"
    /\ \E minLen \in KeyLengthMins, maxLen \in KeyLengthMaxs :
           /\ minKeyLength' = minLen
           /\ maxKeyLength' = maxLen
    /\ op' = "setKeyLengthRange"
    /\ status' = "returned"
    /\ UNCHANGED substitutionVars
    /\ UNCHANGED scorerVars
    /\ UNCHANGED splitVars
    /\ UNCHANGED searchVars
    /\ UNCHANGED coincidenceVars
    /\ UNCHANGED solutions
    /\ UNCHANGED <<text, shift, keyword, cipher, result>>
    /\ UNCHANGED <<confidence, minTextLength, lastAnalysis, keyScores, bestKey, arg,
                   fitness, tieOffset, hwConcurrency>>
    /\ UNCHANGED <<preferred, winningShifts, foundKey, analysisResults,
                   candidateKeyLengths, vigenereConfidence, tasks>>

\* what an exception or a crash inside findKeyLength leaves behind
KeyLengthFailure(ct, outcome) ==
    /\ status' = outcome
    /\ analysisResults' =
          IF findRepeatingSubstringsThrows(normalizeText(ct), DefaultMinSubstringLength)
             \/ KasiskiDividesByZero(allDistances(normalizeText(ct), DefaultMinSubstringLength,
                                                  minKeyLength), minKeyLength, maxKeyLength)
          THEN [kasiski |-> <<>>, ic |-> <<>>]
          ELSE [kasiski |-> kasiskiExamination(normalizeText(ct), DefaultMinSubstringLength,
                                               minKeyLength, maxKeyLength, tieOffset),
                ic |-> <<>>]
    /\ UNCHANGED <<result, confidence, lastAnalysis, foundKey, candidateKeyLengths,
                   vigenereConfidence>>

\* the candidate lengths are tried, one task each when there are several;
\* the tasks write the embedded Caesar breaker without synchronisation, the
\* outcomes of that race are a crash or the state one of the tasks left
TryKeyLengths(ct, lengths) ==
    \E tried \in {[j \in 1..Len(lengths) |->
                      tryKeyLength(ct, lengths[j], minTextLength, preferred, tieOffset,
                                   hwConcurrency, confidence, lastAnalysis)]} :
    \E outcome \in IF Len(lengths) = 1 THEN {"returned"} ELSE {"returned", "raceCrashed"} :
    \E last \in 1..Len(lengths) :
        /\ status' = outcome
        /\ IF outcome = "returned"
           THEN \E best \in {IF Len(lengths) = 1 THEN tried[1]
                             ELSE bestOf(tried, 1, NoResult)} :
                    /\ result' = best.decrypted
                    /\ foundKey' = best.key
                    /\ vigenereConfidence' = updateConfidence(best.score)
                    /\ confidence' = tried[last].confidence
                    /\ lastAnalysis' = tried[last].lastAnalysis
           ELSE UNCHANGED <<result, foundKey, vigenereConfidence, confidence, lastAnalysis>>

\* breakCipher(ct) from the validation to the return
BreakCipherBody(ct) ==
    /\ arg' = ct
    /\ IF ~validateInput(ct)
       THEN /\ result' = <<>>
            /\ status' = "returned"
            /\ UNCHANGED <<confidence, lastAnalysis, foundKey, analysisResults,
                           candidateKeyLengths, vigenereConfidence>>
       ELSE \E outcome \in findKeyLengthOutcomes(normalizeText(ct),
                               DefaultMinSubstringLength, minKeyLength, maxKeyLength) :
            IF outcome # "returned" THEN KeyLengthFailure(ct, outcome)
            ELSE \E found \in {findKeyLength(ct, DefaultMinSubstringLength, minKeyLength,
                                             maxKeyLength, tieOffset)} :
                    /\ analysisResults' = [kasiski |-> found.kasiski, ic |-> found.ic]
                    /\ candidateKeyLengths' = found.combined
                    /\ IF found.combined = <<>>
                       THEN /\ result' = <<>>
                            /\ status' = "returned"
                            /\ UNCHANGED <<confidence, lastAnalysis, foundKey,
                                           vigenereConfidence>>
                       ELSE TryKeyLengths(ct, found.combined)
    /\ op' = "breakCipher"
    /\ UNCHANGED substitutionVars
    /\ UNCHANGED scorerVars
    /\ UNCHANGED splitVars
    /\ UNCHANGED searchVars
    /\ UNCHANGED coincidenceVars
    /\ UNCHANGED solutions
    /\ UNCHANGED <<text, shift, keyword, cipher>>
    /\ UNCHANGED <<minTextLength, keyScores, bestKey, fitness, tieOffset, hwConcurrency>>
    /\ UNCHANGED <<preferred, winningShifts, minKeyLength, maxKeyLength, tasks>>

\* breaker.breakCipher(ciphertext)
VigenereBreakCipher ==
    /\ Alive
    /\ \E ct \in {cipher} \cup InvalidInputs : BreakCipherBody(ct)

NextVigenere ==
    \/ SetKeyLengthRange
    \/ VigenereBreakCipher

SpecVigenere == InitVigenere /\ [][NextVigenere]_vars

(***************************************************************************)
(* C9, C10                                                                 *)
(***************************************************************************)
\* breakCipher returned from a valid ciphertext
BrokeValid == op = "breakCipher" /\ status = "returned" /\ validateInput(arg)

NoRepeats(ct) == findRepeatingSubstrings(normalizeText(ct), DefaultMinSubstringLength) = {}

\* C9 as stated: when Kasiski examination finds no repeated substring in a
\* valid ciphertext, breakCipher returns the empty string instead of a guess.
C9_NoRepeatsNoResult == (BrokeValid /\ NoRepeats(arg)) => result = <<>>

\* C9 amended: breakCipher returns the empty string from a valid ciphertext
\* exactly when findKeyLength returns no candidate, which is when
\* minKeyLength > maxKeyLength; when Kasiski finds no repeated substring the
\* candidates are all the lengths minKeyLength..maxKeyLength and the result is
\* the best decryption among them.
C9_NoCandidatesNoResult ==
    BrokeValid =>
        /\ (result = <<>>) <=> (candidateKeyLengths = <<>>)
        /\ (candidateKeyLengths = <<>>) <=> (minKeyLength > maxKeyLength)
        /\ NoRepeats(arg) => SeqRange(candidateKeyLengths) = minKeyLength..maxKeyLength
        /\ result # <<>> =>
              /\ result = VigenereDecrypt(arg, foundKey)
              /\ Len(foundKey) \in SeqRange(candidateKeyLengths)

\* "ABC" under a key, no repeated substring, the default range: a guess
C9_Witness ==
    /\ BrokeValid
    /\ NoRepeats(arg)
    /\ text = ABC
    /\ analysisResults.kasiski = <<>>
    /\ SeqRange(candidateKeyLengths) = DefaultMinKeyLength..DefaultMaxKeyLength
    /\ result # <<>>

\* C10: after setKeyLengthRange with an inverted or out-of-bounds range a
\* breakCipher on a valid ciphertext does not fail and uses no key length
\* outside 1..20.
C10_RangeClamped ==
    (/\ op = "breakCipher"
     /\ validateInput(arg)
     /\ ~findRepeatingSubstringsThrows(normalizeText(arg), DefaultMinSubstringLength)) =>
        /\ status \in {"returned", "raceCrashed"}
        /\ status = "returned" => result # <<>>
        /\ \A l \in SeqRange(candidateKeyLengths) : l >= 1 /\ l <= DefaultMaxKeyLength

(***************************************************************************)
(* VigenereBreaker::breakCipher, the tasks step by step                    *)
(*                                                                         *)
(* Each task runs the lambda [this, ciphertext, keyLength]: findKey calls  *)
(* caesarBreaker.findBestKey on every column, and findPossibleKeys writes  *)
(* the members lastAnalysis and confidence of the one embedded Caesar      *)
(* breaker.  pc "collect": the next step of the task writes lastAnalysis;  *)
(* pc "confidence": the next step writes confidence.                       *)
(***************************************************************************)
TaskTexts == {ABC, AAAAA}
TaskRanges == {r \in (1..2) \X (1..(MaxTasks + 1)) : r[1] <= r[2] /\ r[2] - r[1] < MaxTasks}

InitTasks ==
    /\ text \in TaskTexts
    /\ keyword \in BreakKeys
    /\ shift = 0
    /\ cipher = VigenereEncrypt(text, keyword)
    /\ result = <<>>
    /\ op = "init"
    /\ confidence = 0
    /\ minTextLength = DefaultMinTextLength
    /\ lastAnalysis = EmptyMap
    /\ keyScores = <<>>
    /\ bestKey = 0
    /\ arg = <<>>
    /\ status = "idle"
    /\ fitness = [top |-> {}, hi |-> 0, lo |-> 0]
    /\ tieOffset \in TieOffsets
    /\ hwConcurrency = MaxHw
    /\ preferred = {normalizeText(text)} \cup Columns(text, Len(keyword))
    /\ winningShifts = <<>>
    /\ foundKey = <<>>
    \* the range an earlier setKeyLengthRange left
    /\ \E r \in TaskRanges : minKeyLength = r[1] /\ maxKeyLength = r[2]
    /\ analysisResults = [kasiski |-> <<>>, ic |-> <<>>]
    /\ candidateKeyLengths = <<>>
    /\ vigenereConfidence = 0
    /\ tasks = <<>>
    /\ SubstitutionIdle
    /\ ScorerIdle
    /\ solutions = <<>>
    /\ SplitIdle
    /\ SearchIdle
    /\ CoincidenceIdle

\* the key lengths breakCipher(ct) goes on to try
CandidatesOf(ct) ==
    IF validateInput(ct)
       /\ findKeyLengthOutcomes(normalizeText(ct), DefaultMinSubstringLength,
                                minKeyLength, maxKeyLength) = {"returned"}
    THEN findKeyLength(ct, DefaultMinSubstringLength, minKeyLength, maxKeyLength,
                       tieOffset).combined
    ELSE <<>>

NewTask(keyLength) ==
    [pc |-> "score", keyLength |-> keyLength, position |-> 1, key |-> <<>>,
     decrypted |-> <<>>, score |-> 0]

\* breakCipher(ciphertext) with at most one candidate length: no task
BreakWithoutTasks ==
    /\ op = "init"
    /\ Len(CandidatesOf(cipher)) < 2
    /\ BreakCipherBody(cipher)

\* breakCipher(ciphertext) up to the launch of one task per candidate length
LaunchTasks ==
    /\ op = "init"
    /\ \E lengths \in {CandidatesOf(cipher)} :
        /\ Len(lengths) >= 2
        /\ candidateKeyLengths' = lengths
        /\ tasks' = [j \in 1..Len(lengths) |-> NewTask(lengths[j])]
    /\ \E found \in {findKeyLength(cipher, DefaultMinSubstringLength, minKeyLength,
                                   maxKeyLength, tieOffset)} :
        analysisResults' = [kasiski |-> found.kasiski, ic |-> found.ic]
    /\ arg' = cipher
    /\ op' = "launched"
    /\ status' = "running"
    /\ UNCHANGED substitutionVars
    /\ UNCHANGED scorerVars
    /\ UNCHANGED splitVars
    /\ UNCHANGED searchVars
    /\ UNCHANGED coincidenceVars
    /\ UNCHANGED solutions
    /\ UNCHANGED <<text, shift, keyword, cipher, result>>
    /\ UNCHANGED <<confidence, minTextLength, lastAnalysis, keyScores, bestKey,
                   fitness, tieOffset, hwConcurrency>>
    /\ UNCHANGED <<preferred, winningShifts, foundKey, minKeyLength, maxKeyLength,
                   vigenereConfidence>>

ColumnOf(task) == splitByKeyPosition(normalizeText(arg), task.keyLength)[task.position]

\* the column is done: on to the next one, or to the decryption
NextColumn(task, keyChar) ==
    [task EXCEPT !.key = @ \o <<keyChar>>,
                 !.position = @ + 1,
                 !.pc = IF task.position + 1 > task.keyLength THEN "decrypt" ELSE "score"]

TaskFrame ==
    /\ UNCHANGED substitutionVars
    /\ UNCHANGED scorerVars
    /\ UNCHANGED splitVars
    /\ UNCHANGED searchVars
    /\ UNCHANGED coincidenceVars
    /\ UNCHANGED solutions
    /\ UNCHANGED <<text, shift, keyword, cipher, result, op>>
    /\ UNCHANGED <<minTextLength, keyScores, bestKey, arg, status, fitness, tieOffset,
                   hwConcurrency>>
    /\ UNCHANGED <<preferred, winningShifts, foundKey, minKeyLength, maxKeyLength,
                   analysisResults, candidateKeyLengths, vigenereConfidence>>

\* findKey reaches a column: an empty one gives 'A', any other goes to
\* caesarBreaker.findBestKey, whose own futures score the 26 shifts
TaskScoreColumn(t) ==
    /\ op = "launched"
    /\ tasks[t].pc = "score"
    /\ tasks' = [tasks EXCEPT ![t] = IF ColumnOf(tasks[t]) = <<>>
                                     THEN NextColumn(tasks[t], 65)
                                     ELSE [tasks[t] EXCEPT !.pc = "collect"]]
    /\ UNCHANGED <<confidence, lastAnalysis>>
    /\ TaskFrame

\* findPossibleKeys: lastAnalysis[key] = score for the 26 keys
TaskWriteLastAnalysis(t) ==
    /\ op = "launched"
    /\ tasks[t].pc = "collect"
    /\ \E r \in {findPossibleKeys(ColumnOf(tasks[t]), minTextLength,
                                  ColumnFitness(ColumnOf(tasks[t]), preferred), tieOffset,
                                  hwConcurrency, confidence, lastAnalysis)} :
           lastAnalysis' = r.lastAnalysis
    /\ tasks' = [tasks EXCEPT ![t].pc = "confidence"]
    /\ UNCHANGED confidence
    /\ TaskFrame

\* findPossibleKeys: confidence = ...; findSubkey turns the shift into a letter
TaskWriteConfidence(t) ==
    /\ op = "launched"
    /\ tasks[t].pc = "confidence"
    /\ \E r \in {findPossibleKeys(ColumnOf(tasks[t]), minTextLength,
                                  ColumnFitness(ColumnOf(tasks[t]), preferred), tieOffset,
                                  hwConcurrency, confidence, lastAnalysis)} :
           /\ confidence' = r.confidence
           /\ tasks' = [tasks EXCEPT ![t] =
                            NextColumn(tasks[t], shiftToChar(findBestKey(r.keyScores)))]
    /\ UNCHANGED lastAnalysis
    /\ TaskFrame

\* decrypt(ciphertext, key) and scorePlaintext(decrypted), on the task's copies
TaskDecrypt(t) ==
    /\ op = "launched"
    /\ tasks[t].pc = "decrypt"
    /\ tasks' = [tasks EXCEPT ![t] =
                    [tasks[t] EXCEPT !.pc = "done",
                                     !.decrypted = VigenereDecrypt(arg, tasks[t].key),
                                     !.score = scorePlaintext(VigenereDecrypt(arg, tasks[t].key),
                                                              preferred)]]
    /\ UNCHANGED <<confidence, lastAnalysis>>
    /\ TaskFrame

\* two tasks are about to access the same member, one of them writing
RacingOn(a, b) ==
    /\ a # b
    /\ tasks[a].pc = tasks[b].pc
    /\ tasks[a].pc \in {"collect", "confidence"}

DataRace == \E a, b \in DOMAIN tasks : RacingOn(a, b)

\* the two unsynchronised writes happen at once: undefined behaviour, here
\* the crash; the other outcomes are the steps of the two tasks one by one
RaceCrash ==
    /\ op = "launched"
    /\ DataRace
    /\ status' = "raceCrashed"
    /\ op' = "breakCipher"
    /\ UNCHANGED substitutionVars
    /\ UNCHANGED scorerVars
    /\ UNCHANGED splitVars
    /\ UNCHANGED searchVars
    /\ UNCHANGED coincidenceVars
    /\ UNCHANGED solutions
    /\ UNCHANGED <<text, shift, keyword, cipher, result>>
    /\ UNCHANGED <<confidence, minTextLength, lastAnalysis, keyScores, bestKey, arg,
                   fitness, tieOffset, hwConcurrency>>
    /\ UNCHANGED vigenereVars

\* the futures are collected in order, the best score wins, breakCipher returns
CollectTasks ==
    /\ op = "launched"
    /\ \A t \in DOMAIN tasks : tasks[t].pc = "done"
    /\ \E best \in {bestOf(tasks, 1, NoResult)} :
           /\ result' = best.decrypted
           /\ foundKey' = best.key
           /\ vigenereConfidence' = updateConfidence(best.score)
    /\ status' = "returned"
    /\ op' = "breakCipher"
    /\ UNCHANGED substitutionVars
    /\ UNCHANGED scorerVars
    /\ UNCHANGED splitVars
    /\ UNCHANGED searchVars
    /\ UNCHANGED coincidenceVars
    /\ UNCHANGED solutions
    /\ UNCHANGED <<text, shift, keyword, cipher>>
    /\ UNCHANGED <<confidence, minTextLength, lastAnalysis, keyScores, bestKey, arg,
                   fitness, tieOffset, hwConcurrency>>
    /\ UNCHANGED <<preferred, winningShifts, minKeyLength, maxKeyLength, analysisResults,
                   candidateKeyLengths, tasks>>

\* a step of any one of the tasks
ScoreColumn == \E t \in DOMAIN tasks : TaskScoreColumn(t)
WriteLastAnalysis == \E t \in DOMAIN tasks : TaskWriteLastAnalysis(t)
WriteConfidence == \E t \in DOMAIN tasks : TaskWriteConfidence(t)
Decrypt == \E t \in DOMAIN tasks : TaskDecrypt(t)

NextTasks ==
    \/ BreakWithoutTasks
    \/ LaunchTasks
    \/ ScoreColumn
    \/ WriteLastAnalysis
    \/ WriteConfidence
    \/ Decrypt
    \/ RaceCrash
    \/ CollectTasks

SpecTasks == InitTasks /\ [][NextTasks]_vars

(***************************************************************************)
(* C8                                                                      *)
(***************************************************************************)
\* C8: while breakCipher evaluates several key lengths concurrently no two
\* tasks access the same mutable state: there is no data race on a member of
\* the breaker or of its embedded Caesar solver.
C8_NoDataRace == op = "launched" => ~DataRace

(***************************************************************************)
(* SubstitutionBreaker: the mappings                                       *)
(***************************************************************************)
Letters == 65..90

\* initializeEnglishFrequencies, in hundredths of a percent, 'A' to 'Z'
EnglishFrequencies ==
    <<812, 149, 278, 425, 1202, 223, 202, 609, 697, 15, 77, 403, 241,
      675, 751, 193, 10, 599, 633, 906, 276, 98, 236, 15, 197, 7>>

\* the letters of a text with their counts, in the order of the std::map
calculateFrequency(t) ==
    LET n == normalizeText(t)
        present == SelectSeq(KeyRange(65, 91), LAMBDA c : \E i \in DOMAIN n : n[i] = c)
    IN  [k \in DOMAIN present |->
            <<present[k], Cardinality({i \in DOMAIN n : n[i] = present[k]})>>]

getLanguageFrequencies == [k \in 1..26 |-> <<64 + k, EnglishFrequencies[k]>>]

\* what a mapping maps to
PlainChars(m) == {m[c] : c \in DOMAIN m}

\* a completion that adds nothing
completeMappingNothing(m) == m

\* completeMapping: the unmapped cipher letters take the unused plain letters,
\* both in alphabetical order
completeMapping(m) ==
    LET unusedCipherChars == SelectSeq(KeyRange(65, 91), LAMBDA c : c \notin DOMAIN m)
        unusedPlainChars == SelectSeq(KeyRange(65, 91), LAMBDA c : c \notin PlainChars(m))
        minSize == Min(Len(unusedCipherChars), Len(unusedPlainChars))
        at(c) == CHOOSE i \in 1..minSize : unusedCipherChars[i] = c
    IN  [c \in DOMAIN m \cup {unusedCipherChars[i] : i \in 1..minSize} |->
            IF c \in DOMAIN m THEN m[c] ELSE unusedPlainChars[at(c)]]

\* generateMapping: the i-th most frequent cipher letter maps to the i-th most
\* frequent English letter; equal frequencies come out of std::sort in an
\* order the tie stands for
generateMapping(ciphertext, tie) ==
    LET cipherSorted == SortByScore(calculateFrequency(ciphertext), tie)
        englishSorted == SortByScore(getLanguageFrequencies, tie)
        minSize == Min(Len(cipherSorted), Len(englishSorted))
        at(c) == CHOOSE i \in 1..minSize : cipherSorted[i][1] = c
    IN  completeMapping([c \in {cipherSorted[i][1] : i \in 1..minSize} |->
                            englishSorted[at(c)][1]])

applyMappingChar(c, m) ==
    IF isalpha(c) /\ toupper(c) \in DOMAIN m
    THEN IF isupper(c) THEN m[toupper(c)] ELSE tolower(m[toupper(c)])
    ELSE c

applyMapping(t, m) == [i \in 1..Len(t) |-> applyMappingChar(t[i], m)]

\* generateNeighborMapping with the two letters the generator picked
generateNeighborMapping(m, char1, char2) ==
    [m EXCEPT ![char1] = m[char2], ![char2] = m[char1]]

\* the bigrams of a text, each once, in the order they first occur
Bigrams(n) ==
    LET all == [i \in 1..(Len(n) - 1) |-> <<n[i], n[i + 1]>>]
        first == {i \in DOMAIN all : \A j \in 1..(i - 1) : all[j] # all[i]}
        count(b) == Cardinality({i \in DOMAIN all : all[i] = b})
    IN  [k \in 1..Cardinality(first) |->
            LET i == CHOOSE x \in first : Cardinality({y \in first : y < x}) = k - 1
            IN  <<all[i], count(all[i])>>]

BigramCode(b) == (b[1] - 65) * 26 + (b[2] - 65)

BigramBefore(a, b, tie) ==
    \/ a[2] > b[2]
    \/ a[2] = b[2] /\ ((BigramCode(a[1]) + tie) % 676) < ((BigramCode(b[1]) + tie) % 676)

\* findCommonBigrams(text, count): the most frequent bigrams first
findCommonBigrams(t, count, tie) ==
    LET sorted == SortSeq(Bigrams(normalizeText(t)), LAMBDA a, b : BigramBefore(a, b, tie))
    IN  SubSeq(sorted, 1, Min(Len(sorted), count))

\* "TH", "HE", "IN", "ER", "AN", "RE", "ED", "ND", "ON", "EN"
commonEnglishBigrams ==
    <<<<84, 72>>, <<72, 69>>, <<73, 78>>, <<69, 82>>, <<65, 78>>,
      <<82, 69>>, <<69, 68>>, <<78, 68>>, <<79, 78>>, <<69, 78>>>>

\* the mapping improveMappingWithBigrams tests in round i (from 0)
testMapping(m, ciphertext, i, tie) ==
    LET cipherBigram == findCommonBigrams(ciphertext, 10, tie)[i + 1][1]
        englishBigram == commonEnglishBigrams[i + 1]
        first == [m EXCEPT ![cipherBigram[1]] = englishBigram[1]]
    IN  [first EXCEPT ![cipherBigram[2]] = englishBigram[2]]

BigramRounds(ciphertext, tie) ==
    Min(Len(findCommonBigrams(ciphertext, 10, tie)), Len(commonEnglishBigrams))

\* scorePlaintext: calculateBigramScore and calculateTrigramScore loop to
\* length - 1 and length - 2
scorePlaintextThrows(plaintext) ==
    \/ NGramLoopThrows(Len(normalizeText(plaintext)), 1)
    \/ NGramLoopThrows(Len(normalizeText(plaintext)), 2)

scoreMappingThrows(m, ciphertext) == scorePlaintextThrows(applyMapping(ciphertext, m))

\* the fitness of a plaintext is a function of the plaintext: one the run has
\* scored before keeps its score
SubstitutionLevels == 1..MaxLevel
ScoreChoices(memo, plaintext) ==
    IF plaintext \in DOMAIN memo THEN {memo[plaintext]} ELSE SubstitutionLevels
Remember(memo, plaintext, score) ==
    [q \in DOMAIN memo \cup {plaintext} |-> IF q = plaintext THEN score ELSE memo[q]]

(***************************************************************************)
(* One SubstitutionBreaker object and the calls made on it                 *)
(***************************************************************************)
\* the default arguments of hillClimbOptimization and simulatedAnnealing
DefaultHillClimbIterations == 1000
DefaultAnnealingIterations == 2000

\* "z", "AB", "ABA", "Ab3"
SubstitutionTexts == {<<122>>, <<65, 66>>, <<65, 66, 65>>, <<65, 98, 51>>}
OptimizationMethods == {"frequency", "hill_climbing", "simulated_annealing", "hybrid"}
IterationBudgets == {0, 2, 2 * MaxSteps}
\* the letters the generator picks its two from
SwapChars == {65, 66, 90}
SwapPairs == {p \in SwapChars \X SwapChars : p[1] < p[2]}

InitSubstitution ==
    /\ text = <<>>
    /\ keyword = <<>>
    /\ shift = 0
    /\ cipher \in SubstitutionTexts
    /\ result = <<>>
    /\ op = "init"
    /\ confidence = 0
    /\ minTextLength = DefaultMinTextLength
    /\ lastAnalysis = EmptyMap
    /\ keyScores = <<>>
    /\ bestKey = 0
    /\ arg = <<>>
    /\ status = "idle"
    /\ fitness = [top |-> {}, hi |-> 0, lo |-> 0]
    /\ tieOffset \in TieOffsets
    /\ hwConcurrency = 1
    /\ VigenereIdle
    /\ SubstitutionIdle
    /\ ScorerIdle
    /\ solutions = <<>>
    /\ SplitIdle
    /\ SearchIdle
    /\ CoincidenceIdle

\* what no call on the SubstitutionBreaker touches
SubstitutionFrame ==
    /\ UNCHANGED <<text, shift, keyword, cipher>>
    /\ UNCHANGED <<confidence, minTextLength, lastAnalysis, keyScores, bestKey, fitness,
                   tieOffset, hwConcurrency>>
    /\ UNCHANGED vigenereVars
    /\ UNCHANGED firstRun
    /\ UNCHANGED scorerVars
    /\ UNCHANGED splitVars
    /\ UNCHANGED searchVars
    /\ UNCHANGED coincidenceVars
    /\ UNCHANGED solutions

\* breaker.setOptimizationMethod(method), before the breaker is used
SetOptimizationMethod ==
    /\ op = "init"
    /\ \E method \in OptimizationMethods : optimizationMethod' = method
    /\ op' = "setOptimizationMethod"
    /\ status' = "returned"
    /\ UNCHANGED <<result, arg>>
    /\ UNCHANGED <<maxIterations, optimizationHistory, substitutionConfidence, phase, mapping,
                   bestMapping, currentScore, bestScore, iteration, budget, bigramIndex,
                   scoreMemo>>
    /\ SubstitutionFrame

\* breaker.setMaxIterations(maxIter), before the breaker is used
SetMaxIterations ==
    /\ op \in {"init", "setOptimizationMethod"}
    /\ \E maxIter \in IterationBudgets : maxIterations' = maxIter
    /\ op' = "setMaxIterations"
    /\ status' = "returned"
    /\ UNCHANGED <<result, arg>>
    /\ UNCHANGED <<optimizationMethod, optimizationHistory, substitutionConfidence, phase,
                   mapping, bestMapping, currentScore, bestScore, iteration, budget,
                   bigramIndex, scoreMemo>>
    /\ SubstitutionFrame

\* what breakCipher does next once the initial mapping is there
AfterSeed(method) ==
    CASE method = "frequency" -> "finish"
      [] method = "hill_climbing" -> "hillStart"
      [] method = "simulated_annealing" -> "annealStart"
      [] OTHER -> "bigram"

\* breakCipher up to the initial mapping: validateInput, the history cleared,
\* generateMapping
SubstitutionBegin ==
    /\ Alive
    /\ phase = "idle"
    /\ \E ct \in {cipher} \cup InvalidInputs :
           /\ arg' = ct
           /\ IF ~validateInput(ct)
              THEN /\ result' = <<>>
                   /\ op' = "breakCipher"
                   /\ status' = "returned"
                   /\ UNCHANGED <<optimizationHistory, phase, mapping, bestMapping, budget>>
              ELSE /\ optimizationHistory' = <<>>
                   /\ mapping' = generateMapping(ct, tieOffset)
                   /\ bestMapping' = EmptyMap
                   /\ phase' = AfterSeed(optimizationMethod)
                   /\ budget' = CASE optimizationMethod = "frequency" -> 0
                                  [] optimizationMethod = "hill_climbing" ->
                                         DefaultHillClimbIterations
                                  [] optimizationMethod = "simulated_annealing" ->
                                         DefaultAnnealingIterations
                                  [] OTHER -> maxIterations \div 2
                   /\ op' = "generateMapping"
                   /\ status' = "running"
                   /\ UNCHANGED result
    /\ iteration' = 0
    /\ bigramIndex' = 0
    /\ UNCHANGED <<optimizationMethod, maxIterations, substitutionConfidence, currentScore,
                   bestScore, scoreMemo>>
    /\ SubstitutionFrame

\* a refinement that takes every remap of another fitness
bigramImprovesOrDiffers(testScore, mappingScore) == testScore # mappingScore

\* if (scoreMapping(testMapping, ciphertext) > scoreMapping(mapping, ciphertext))
bigramImproves(testScore, mappingScore) == testScore > mappingScore

\* one round of the loop of improveMappingWithBigrams
BigramRound ==
    /\ phase \in {"bigram", "solutionsBigram"}
    /\ bigramIndex < BigramRounds(arg, tieOffset)
    /\ \E test \in {testMapping(mapping, arg, bigramIndex, tieOffset)} :
       \E testScore \in ScoreChoices(scoreMemo, applyMapping(arg, test)) :
       \E memo \in {Remember(scoreMemo, applyMapping(arg, test), testScore)} :
       \E mappingScore \in ScoreChoices(memo, applyMapping(arg, mapping)) :
           /\ scoreMemo' = Remember(memo, applyMapping(arg, mapping), mappingScore)
           /\ mapping' = IF bigramImproves(testScore, mappingScore) THEN test ELSE mapping
    /\ bigramIndex' = bigramIndex + 1
    /\ op' = "improveMappingWithBigrams"
    /\ UNCHANGED <<result, arg, status>>
    /\ UNCHANGED <<optimizationMethod, maxIterations, optimizationHistory,
                   substitutionConfidence, phase, bestMapping, currentScore, bestScore,
                   iteration, budget>>
    /\ SubstitutionFrame

\* the exception of a scorer leaves breakCipher
SubstitutionThrows ==
    /\ status' = "threw"
    /\ op' = "breakCipher"
    /\ phase' = "idle"
    /\ UNCHANGED <<result, arg>>
    /\ UNCHANGED <<optimizationMethod, maxIterations, optimizationHistory,
                   substitutionConfidence, mapping, bestMapping, currentScore, bestScore,
                   iteration, budget, bigramIndex, scoreMemo>>

\* hillClimbOptimization up to its loop: the mapping it is given is scored
HillStart ==
    /\ \/ phase = "hillStart"
       \/ phase = "bigram" /\ bigramIndex >= BigramRounds(arg, tieOffset)
    /\ IF scoreMappingThrows(mapping, arg)
       THEN SubstitutionThrows
       ELSE /\ \E score \in ScoreChoices(scoreMemo, applyMapping(arg, mapping)) :
                   /\ currentScore' = score
                   /\ scoreMemo' = Remember(scoreMemo, applyMapping(arg, mapping), score)
            /\ phase' = "hill"
            /\ iteration' = 0
            /\ op' = "hillClimbOptimization"
            /\ UNCHANGED <<result, arg, status>>
            /\ UNCHANGED <<optimizationMethod, maxIterations, optimizationHistory,
                           substitutionConfidence, mapping, bestMapping, bestScore, budget,
                           bigramIndex>>
    /\ SubstitutionFrame

\* a search that takes every neighbour of another fitness
hillClimbAcceptsAnyChange(neighborScore, current) == neighborScore # current

\* if (neighborScore > currentScore)
hillClimbAccepts(neighborScore, current) == neighborScore > current

\* one iteration of the loop of hillClimbOptimization
HillStep ==
    /\ phase \in {"hill", "solutionsHill"}
    /\ iteration < budget
    /\ iteration < MaxSteps
    /\ \E pair \in SwapPairs :
       \E neighborMapping \in {generateNeighborMapping(mapping, pair[1], pair[2])} :
       \E neighborScore \in ScoreChoices(scoreMemo, applyMapping(arg, neighborMapping)) :
           /\ scoreMemo' = Remember(scoreMemo, applyMapping(arg, neighborMapping),
                                    neighborScore)
           /\ IF hillClimbAccepts(neighborScore, currentScore)
              THEN /\ mapping' = neighborMapping
                   /\ currentScore' = neighborScore
                   /\ optimizationHistory' =
                          Append(optimizationHistory, <<iteration, neighborScore>>)
              ELSE UNCHANGED <<mapping, currentScore, optimizationHistory>>
    /\ iteration' = iteration + 1
    /\ op' = "hillClimbOptimization"
    /\ UNCHANGED <<result, arg, status>>
    /\ UNCHANGED <<optimizationMethod, maxIterations, substitutionConfidence, phase,
                   bestMapping, bestScore, budget, bigramIndex>>
    /\ SubstitutionFrame

\* simulatedAnnealing up to its loop
AnnealStart ==
    /\ phase = "annealStart"
    /\ IF scoreMappingThrows(mapping, arg)
       THEN SubstitutionThrows
       ELSE /\ \E score \in ScoreChoices(scoreMemo, applyMapping(arg, mapping)) :
                   /\ currentScore' = score
                   /\ bestScore' = score
                   /\ scoreMemo' = Remember(scoreMemo, applyMapping(arg, mapping), score)
            /\ bestMapping' = mapping
            /\ phase' = "anneal"
            /\ iteration' = 0
            /\ op' = "simulatedAnnealing"
            /\ UNCHANGED <<result, arg, status>>
            /\ UNCHANGED <<optimizationMethod, maxIterations, optimizationHistory,
                           substitutionConfidence, mapping, budget, bigramIndex>>
    /\ SubstitutionFrame

\* whether a move of deltaScore may be accepted and may be rejected:
\* exp(0 / temperature) is 1 and dist(rng) is below 1
Accepts(deltaScore) == IF deltaScore >= 0 THEN {TRUE} ELSE BOOLEAN

\* a search that takes every accepted mapping for its best
annealImprovesAlways(current, best) == TRUE

\* if (currentScore > bestScore)
annealImproves(current, best) == current > best

\* one iteration of the loop of simulatedAnnealing
AnnealStep ==
    /\ phase = "anneal"
    /\ iteration < budget
    /\ iteration < MaxSteps
    /\ \E pair \in SwapPairs :
       \E neighborMapping \in {generateNeighborMapping(mapping, pair[1], pair[2])} :
       \E neighborScore \in ScoreChoices(scoreMemo, applyMapping(arg, neighborMapping)) :
       \E accept \in Accepts(neighborScore - currentScore) :
           /\ scoreMemo' = Remember(scoreMemo, applyMapping(arg, neighborMapping),
                                    neighborScore)
           /\ IF accept
              THEN /\ mapping' = neighborMapping
                   /\ currentScore' = neighborScore
                   /\ IF annealImproves(neighborScore, bestScore)
                      THEN /\ bestMapping' = neighborMapping
                           /\ bestScore' = neighborScore
                           /\ optimizationHistory' =
                                  Append(optimizationHistory, <<iteration, neighborScore>>)
                      ELSE UNCHANGED <<bestMapping, bestScore, optimizationHistory>>
              ELSE UNCHANGED <<mapping, currentScore, bestMapping, bestScore,
                               optimizationHistory>>
    /\ iteration' = iteration + 1
    /\ op' = "simulatedAnnealing"
    /\ UNCHANGED <<result, arg, status>>
    /\ UNCHANGED <<optimizationMethod, maxIterations, substitutionConfidence, phase, budget,
                   bigramIndex>>
    /\ SubstitutionFrame

\* the end of breakCipher: the best mapping applied, scored, the confidence
SubstitutionFinish ==
    /\ \/ phase = "finish"
       \/ phase \in {"hill", "anneal"} /\ iteration >= budget
    /\ \E best \in {IF phase = "anneal" THEN bestMapping ELSE mapping} :
           IF scoreMappingThrows(best, arg)
           THEN SubstitutionThrows
           ELSE /\ result' = applyMapping(arg, best)
                /\ mapping' = best
                /\ \E finalScore \in ScoreChoices(scoreMemo, applyMapping(arg, best)) :
                       /\ substitutionConfidence' = updateConfidence(finalScore)
                       /\ scoreMemo' = Remember(scoreMemo, applyMapping(arg, best), finalScore)
                /\ status' = "returned"
                /\ op' = "breakCipher"
                /\ phase' = "idle"
                /\ UNCHANGED arg
                /\ UNCHANGED <<optimizationMethod, maxIterations, optimizationHistory,
                               bestMapping, currentScore, bestScore, iteration, budget,
                               bigramIndex>>
    /\ SubstitutionFrame

NextSubstitution ==
    \/ SetOptimizationMethod
    \/ SetMaxIterations
    \/ SubstitutionBegin
    \/ BigramRound
    \/ HillStart
    \/ HillStep
    \/ AnnealStart
    \/ AnnealStep
    \/ SubstitutionFinish

SpecSubstitution == InitSubstitution /\ [][NextSubstitution]_vars

(***************************************************************************)
(* C7, C6                                                                  *)
(***************************************************************************)
IsBijection(m) == DOMAIN m = Letters /\ PlainChars(m) = Letters

\* the steps of breakCipher that hand a mapping on
MappingSteps ==
    {"generateMapping", "improveMappingWithBigrams", "hillClimbOptimization",
     "simulatedAnnealing"}

\* C7: every mapping the SubstitutionBreaker passes to or gets back from a
\* search step (after seeding, after bigram refinement, after each
\* hill-climbing or simulated-annealing step, and the final mapping applied to
\* the text) is a bijection on the 26 letters.
C7_MappingIsBijection ==
    (op \in MappingSteps \/ (op = "breakCipher" /\ status = "returned" /\ validateInput(arg)))
        => IsBijection(mapping)

\* C6: for every input string (empty, invalid, or valid with only one or two
\* letters) breakCipher returns normally with a string: no exception escapes.
C6_NoExceptionEscapes ==
    (op = "breakCipher" /\ alphaCount(arg) <= 2) => status = "returned"

(***************************************************************************)
(* C11                                                                     *)
(***************************************************************************)
\* C11: for a valid input with fewer than minTextLength letters all 26 shifts
\* score 0 and the CaesarBreaker returns shift 0 as best, so breakCipher
\* returns the input text unchanged.
C11_ShortTextUnchanged ==
    (/\ op = "breakCipher"
     /\ status = "returned"
     /\ validateInput(arg)
     /\ Len(normalizeText(arg)) < minTextLength) =>
        /\ \A i \in DOMAIN keyScores : keyScores[i][2] = 0
        /\ bestKey = 0
        /\ result = arg

ScoreOfMapping == scoreMemo[applyMapping(arg, mapping)]

\* C13: hill climbing accepts a neighbour only when its fitness strictly
\* exceeds the current fitness: over the iterations of hillClimbOptimization
\* the current fitness never decreases, it is the fitness of the current
\* mapping, and the mapping breakCipher applies at the end scores what the
\* search ended with, so never below the mapping the search was given.
C13_HillClimbMonotone ==
    [][/\ (phase = "hill" /\ phase' = "hill") =>
              /\ currentScore' >= currentScore
              /\ mapping' # mapping => currentScore' > currentScore
              /\ ScoreOfMapping' = currentScore'
       /\ (phase # "hill" /\ phase' = "hill") => ScoreOfMapping' = currentScore'
       /\ (phase = "hill" /\ phase' = "idle" /\ status' = "returned") =>
              /\ mapping' = mapping
              /\ substitutionConfidence' = updateConfidence(currentScore)]_vars

\* the search took a neighbour of a higher fitness
C13_Witness ==
    /\ phase = "hill"
    /\ iteration >= 1
    /\ optimizationHistory # <<>>
    /\ currentScore = MaxLevel
    /\ mapping # generateMapping(arg, tieOffset)

(***************************************************************************)
(* generateMapping and applyMapping called on their own                    *)
(***************************************************************************)
\* 'A' 'B' 'z' '3'
MappingChars == {65, 66, 122, 51}
THE_QUICK_BROWN_FOX ==
    <<84, 72, 69, 32, 81, 85, 73, 67, 75, 32, 66, 82, 79, 87, 78, 32, 70, 79, 88, 32,
      74, 85, 77, 80, 83, 32, 79, 86, 69, 82, 32, 84, 72, 69, 32, 76, 65, 90, 89, 32,
      68, 79, 71>>
MappingTexts == SeqsUpTo(MappingChars, MaxTextLen) \cup {THE_QUICK_BROWN_FOX}

InitMapping ==
    /\ text = <<>>
    /\ keyword = <<>>
    /\ shift = 0
    /\ cipher \in MappingTexts
    /\ result = <<>>
    /\ op = "init"
    /\ confidence = 0
    /\ minTextLength = DefaultMinTextLength
    /\ lastAnalysis = EmptyMap
    /\ keyScores = <<>>
    /\ bestKey = 0
    /\ arg = <<>>
    /\ status = "idle"
    /\ fitness = [top |-> {}, hi |-> 0, lo |-> 0]
    /\ tieOffset \in TieOffsets
    /\ hwConcurrency = 1
    /\ VigenereIdle
    /\ SubstitutionIdle
    /\ ScorerIdle
    /\ solutions = <<>>
    /\ SplitIdle
    /\ SearchIdle
    /\ CoincidenceIdle

\* mapping = breaker.generateMapping(ciphertext)
GenerateMapping ==
    /\ op = "init"
    /\ mapping' = generateMapping(cipher, tieOffset)
    /\ arg' = cipher
    /\ op' = "generateMapping"
    /\ status' = "returned"
    /\ UNCHANGED result
    /\ UNCHANGED <<optimizationMethod, maxIterations, optimizationHistory,
                   substitutionConfidence, phase, bestMapping, currentScore, bestScore,
                   iteration, budget, bigramIndex, scoreMemo>>
    /\ SubstitutionFrame

\* breaker.applyMapping(text, mapping) with the mapping generated
ApplyMapping ==
    /\ op = "generateMapping"
    /\ result' = applyMapping(arg, mapping)
    /\ op' = "applyMapping"
    /\ UNCHANGED <<arg, status>>
    /\ UNCHANGED <<optimizationMethod, maxIterations, optimizationHistory,
                   substitutionConfidence, phase, mapping, bestMapping, currentScore,
                   bestScore, iteration, budget, bigramIndex, scoreMemo>>
    /\ SubstitutionFrame

NextMapping ==
    \/ GenerateMapping
    \/ ApplyMapping

SpecMapping == InitMapping /\ [][NextMapping]_vars

(***************************************************************************)
(* C14                                                                     *)
(***************************************************************************)
DistinctLetters(t) == SeqRange(normalizeText(t))

\* C14: generateMapping returns a full permutation of the 26 letters for every
\* ciphertext, also for one that uses fewer than 26 distinct letters: the
\* letters frequency matching leaves unmapped are completed from the remaining
\* cipher and plain letters.
C14_GenerateMappingIsPermutation ==
    op \in {"generateMapping", "applyMapping"} =>
        /\ IsBijection(mapping)
        /\ \A c \in Letters \ DistinctLetters(arg) :
               \A d \in Letters \ DistinctLetters(arg) :
                   c < d => mapping[c] < mapping[d]

\* "BAB": B maps to E, A to T, and the completion gives C the letter A
C14_Witness ==
    /\ op = "generateMapping"
    /\ arg = <<66, 65, 66>>
    /\ mapping[66] = 69
    /\ mapping[65] = 84
    /\ mapping[67] = 65
    /\ mapping[90] = 90

(***************************************************************************)
(* A test that runs two SubstitutionBreakers on one ciphertext              *)
(***************************************************************************)
\* the one breakCipher call the test makes on each breaker
ReplayBegin ==
    /\ IF firstRun = <<>>
       THEN op \in {"init", "setOptimizationMethod", "setMaxIterations"}
       ELSE op = "constructed"
    /\ SubstitutionBegin

\* the test keeps the outcome of the first breaker, constructs a second one
\* (its generator seeded from the clock like the first) and gives it the
\* configuration of the first
ConstructAgain ==
    /\ firstRun = <<>>
    /\ op = "breakCipher"
    /\ status = "returned"
    /\ validateInput(arg)
    /\ firstRun' = <<[ciphertext |-> arg, plaintext |-> result, mapping |-> mapping]>>
    /\ op' = "constructed"
    /\ status' = "idle"
    /\ result' = <<>>
    /\ arg' = <<>>
    /\ optimizationHistory' = <<>>
    /\ substitutionConfidence' = 0
    /\ phase' = "idle"
    /\ mapping' = EmptyMap
    /\ bestMapping' = EmptyMap
    /\ currentScore' = 0
    /\ bestScore' = 0
    /\ iteration' = 0
    /\ budget' = 0
    /\ bigramIndex' = 0
    /\ UNCHANGED <<optimizationMethod, maxIterations, scoreMemo>>
    /\ UNCHANGED scorerVars
    /\ UNCHANGED splitVars
    /\ UNCHANGED searchVars
    /\ UNCHANGED coincidenceVars
    /\ UNCHANGED solutions
    /\ UNCHANGED <<text, shift, keyword, cipher>>
    /\ UNCHANGED <<confidence, minTextLength, lastAnalysis, keyScores, bestKey, fitness,
                   tieOffset, hwConcurrency>>
    /\ UNCHANGED vigenereVars

NextReplay ==
    \/ SetOptimizationMethod
    \/ SetMaxIterations
    \/ ReplayBegin
    \/ BigramRound
    \/ HillStart
    \/ HillStep
    \/ AnnealStart
    \/ AnnealStep
    \/ SubstitutionFinish
    \/ ConstructAgain

SpecReplay == InitSubstitution /\ [][NextReplay]_vars

(***************************************************************************)
(* C15                                                                     *)
(***************************************************************************)
\* C15: two runs of a randomized search on the same ciphertext with the same
\* configuration and the same seed return the same mapping and plaintext, and
\* a caller can fix the seed: the second breaker of the test, configured like
\* the first, returns what the first returned.
C15_RunsReproducible ==
    (/\ firstRun # <<>>
     /\ op = "breakCipher"
     /\ status = "returned"
     /\ arg = firstRun[1].ciphertext) =>
        /\ mapping = firstRun[1].mapping
        /\ result = firstRun[1].plaintext

(***************************************************************************)
(* The three scorers on one candidate plaintext                            *)
(***************************************************************************)
\* CaesarBreaker::scoreText past its length guard:
\* normalizeScore(1 / (1 + chi), 0, 1) * 0.5 + icScore * 0.3 + patternScore * 0.2
caesarCombinedScore(chiFit, icScore, patternScore) ==
    Max(0, Min(10, chiFit)) * 5 + icScore * 3 + patternScore * 2

\* VigenereBreaker::scorePlaintext: analyzer.scoreEnglishness alone
vigenereScore(freqScore) == freqScore * 10

\* SubstitutionBreaker::calculateCombinedScore
calculateCombinedScore(freqScore, bigramScore, trigramScore, wordScore) ==
    freqScore * 3 + bigramScore * 3 + trigramScore * 2 + wordScore * 2

\* "Az3" and twenty letters
CandidateTexts == {<<65, 122, 51>>, Repeat(104, DefaultMinTextLength)}
SubScores == 0..MaxLevel

InitScorers ==
    /\ text \in CandidateTexts
    /\ keyword = <<>>
    /\ shift = 0
    /\ cipher = <<>>
    /\ result = <<>>
    /\ op = "init"
    /\ confidence = 0
    /\ minTextLength = DefaultMinTextLength
    /\ lastAnalysis = EmptyMap
    /\ keyScores = <<>>
    /\ bestKey = 0
    /\ arg = <<>>
    /\ status = "idle"
    /\ fitness = [top |-> {}, hi |-> 0, lo |-> 0]
    /\ tieOffset = 0
    /\ hwConcurrency = 1
    /\ VigenereIdle
    /\ SubstitutionIdle
    /\ statistics \in [unigram : SubScores, bigram : SubScores, trigram : SubScores,
                       word : SubScores, ic : SubScores, pattern : SubScores]
    /\ scores = NoScores
    /\ solutions = <<>>
    /\ SplitIdle
    /\ SearchIdle
    /\ CoincidenceIdle

\* scorePlaintext(text) of a CaesarBreaker, a VigenereBreaker and a
\* SubstitutionBreaker
ScorePlaintext ==
    /\ op = "init"
    /\ scores' =
          [caesar |-> scoreText(text, minTextLength,
                                caesarCombinedScore(statistics.unigram, statistics.ic,
                                                    statistics.pattern)),
           vigenere |-> vigenereScore(statistics.unigram),
           substitution |-> calculateCombinedScore(statistics.unigram, statistics.bigram,
                                                   statistics.trigram, statistics.word)]
    /\ arg' = text
    /\ op' = "scorePlaintext"
    /\ status' = "returned"
    /\ UNCHANGED <<text, shift, keyword, cipher, result>>
    /\ UNCHANGED <<confidence, minTextLength, lastAnalysis, keyScores, bestKey, fitness,
                   tieOffset, hwConcurrency>>
    /\ UNCHANGED vigenereVars
    /\ UNCHANGED substitutionVars
    /\ UNCHANGED <<statistics, solutions>>
    /\ UNCHANGED splitVars
    /\ UNCHANGED searchVars
    /\ UNCHANGED coincidenceVars

NextScorers == ScorePlaintext

SpecScorers == InitScorers /\ [][NextScorers]_vars

(***************************************************************************)
(* C16                                                                     *)
(***************************************************************************)
\* C16: all three solvers rank candidate decryptions with the same fitness
\* function, 0.3 unigram + 0.3 bigram + 0.2 trigram + 0.2 word: the Caesar and
\* the Vigenere solver use no other combination.
C16_OneFitnessFunction ==
    op = "scorePlaintext" =>
        /\ scores.substitution =
              calculateCombinedScore(statistics.unigram, statistics.bigram,
                                     statistics.trigram, statistics.word)
        /\ scores.caesar = scores.substitution
        /\ scores.vigenere = scores.substitution

(***************************************************************************)
(* VigenereBreaker::getPossibleSolutions                                   *)
(***************************************************************************)
\* "Try top 5 key lengths"
MaxSolutions == 5

\* the loop of getPossibleSolutions from candidate i on: findKey, decrypt,
\* push_back, the embedded Caesar breaker going from one findKey to the next
RECURSIVE possibleSolutionsFrom(_, _, _, _, _, _, _, _)
possibleSolutionsFrom(ciphertext, lengths, i, acc, minLen, pref, tie, hw) ==
    IF i > Min(MaxSolutions, Len(lengths)) \/ acc.status # "returned" THEN acc
    ELSE possibleSolutionsFrom(ciphertext, lengths, i + 1,
             CHOOSE next \in
                 {[status |-> st.status,
                   solutions |-> IF st.status = "returned"
                                 THEN Append(acc.solutions, VigenereDecrypt(ciphertext, st.key))
                                 ELSE acc.solutions,
                   confidence |-> st.confidence,
                   lastAnalysis |-> st.lastAnalysis] :
                     st \in {findKey(ciphertext, lengths[i], minLen, pref, tie, hw,
                                     acc.confidence, acc.lastAnalysis)}} : TRUE,
             minLen, pref, tie, hw)

\* "ABC", "ABCABC" and forty letters
SolutionTexts == {ABC, ABCABC, Repeat(104, 2 * DefaultMinTextLength)}

InitSolutions ==
    /\ text \in SolutionTexts
    /\ keyword \in BreakKeys
    /\ shift = 0
    /\ cipher = VigenereEncrypt(text, keyword)
    /\ result = <<>>
    /\ op = "init"
    /\ confidence = 0
    /\ minTextLength = DefaultMinTextLength
    /\ lastAnalysis = EmptyMap
    /\ keyScores = <<>>
    /\ bestKey = 0
    /\ arg = <<>>
    /\ status = "idle"
    /\ fitness = [top |-> {}, hi |-> 0, lo |-> 0]
    /\ tieOffset \in TieOffsets
    /\ hwConcurrency = MaxHw
    \* the statistics rate the plaintext and its columns high, or nothing, or
    \* the ciphertext rotated as a whole
    /\ preferred \in {{normalizeText(text)} \cup Columns(text, Len(keyword)), {},
                      {caesarShift(normalizeText(cipher), 13)}}
    /\ winningShifts = <<>>
    /\ foundKey = <<>>
    /\ minKeyLength = DefaultMinKeyLength
    /\ maxKeyLength = DefaultMaxKeyLength
    /\ analysisResults = [kasiski |-> <<>>, ic |-> <<>>]
    /\ candidateKeyLengths = <<>>
    /\ vigenereConfidence = 0
    /\ tasks = <<>>
    /\ SubstitutionIdle
    /\ ScorerIdle
    /\ solutions = <<>>
    /\ SplitIdle
    /\ SearchIdle
    /\ CoincidenceIdle

\* breaker.getPossibleSolutions(ciphertext)
VigenereGetPossibleSolutions ==
    /\ Alive
    /\ \E ct \in {cipher} \cup InvalidInputs :
        /\ arg' = ct
        /\ IF ~validateInput(ct)
           THEN /\ solutions' = <<>>
                /\ status' = "returned"
                /\ UNCHANGED <<confidence, lastAnalysis, analysisResults, candidateKeyLengths>>
           ELSE \E outcome \in findKeyLengthOutcomes(normalizeText(ct),
                                   DefaultMinSubstringLength, minKeyLength, maxKeyLength) :
                IF outcome # "returned"
                THEN /\ status' = outcome
                     /\ analysisResults' =
                           IF findRepeatingSubstringsThrows(normalizeText(ct),
                                                            DefaultMinSubstringLength)
                              \/ KasiskiDividesByZero(
                                     allDistances(normalizeText(ct), DefaultMinSubstringLength,
                                                  minKeyLength), minKeyLength, maxKeyLength)
                           THEN analysisResults
                           ELSE [analysisResults EXCEPT !.kasiski =
                                    kasiskiExamination(normalizeText(ct),
                                                       DefaultMinSubstringLength, minKeyLength,
                                                       maxKeyLength, tieOffset)]
                     /\ UNCHANGED <<solutions, confidence, lastAnalysis, candidateKeyLengths>>
                ELSE \E found \in {findKeyLength(ct, DefaultMinSubstringLength, minKeyLength,
                                                 maxKeyLength, tieOffset)} :
                     \E r \in {possibleSolutionsFrom(ct, found.combined, 1,
                                   [status |-> "returned", solutions |-> <<>>,
                                    confidence |-> confidence, lastAnalysis |-> lastAnalysis],
                                   minTextLength, preferred, tieOffset, hwConcurrency)} :
                        /\ analysisResults' = [kasiski |-> found.kasiski, ic |-> found.ic]
                        /\ candidateKeyLengths' = found.combined
                        /\ status' = r.status
                        /\ solutions' = IF r.status = "returned" THEN r.solutions
                                        ELSE solutions
                        /\ confidence' = r.confidence
                        /\ lastAnalysis' = r.lastAnalysis
    /\ op' = "getPossibleSolutions"
    /\ UNCHANGED <<text, shift, keyword, cipher, result>>
    /\ UNCHANGED <<minTextLength, keyScores, bestKey, fitness, tieOffset, hwConcurrency>>
    /\ UNCHANGED <<preferred, winningShifts, foundKey, minKeyLength, maxKeyLength,
                   vigenereConfidence, tasks>>
    /\ UNCHANGED substitutionVars
    /\ UNCHANGED scorerVars
    /\ UNCHANGED splitVars
    /\ UNCHANGED searchVars
    /\ UNCHANGED coincidenceVars

NextSolutions ==
    \/ SetKeyLengthRange
    \/ VigenereGetPossibleSolutions

SpecSolutions == InitSolutions /\ [][NextSolutions]_vars

(***************************************************************************)
(* C17                                                                     *)
(***************************************************************************)
\* C17: getPossibleSolutions returns its alternatives ranked by likelihood:
\* the plaintext scores of successive elements are non-increasing.
C17_SolutionsRanked ==
    (op = "getPossibleSolutions" /\ status = "returned") =>
        \A i \in 1..(Len(solutions) - 1) :
            scorePlaintext(solutions[i], preferred)
                >= scorePlaintext(solutions[i + 1], preferred)

(***************************************************************************)
(* VigenereBreaker::splitByKeyPosition on its own                          *)
(***************************************************************************)
ABCDEFGH == <<65, 66, 67, 68, 69, 70, 71, 72>>
\* 'A' 'B' 'h'
SplitChars == {65, 66, 104}
SplitTexts == SeqsUpTo(SplitChars, MaxTextLen) \cup {ABCDEFGH}
SplitLengths == (0 - 1)..(MaxKeyLen + 1)

InitSplit ==
    /\ text \in SplitTexts
    /\ shift = 0
    /\ keyword = <<>>
    /\ cipher = <<>>
    /\ result = <<>>
    /\ op = "init"
    /\ confidence = 0
    /\ minTextLength = DefaultMinTextLength
    /\ lastAnalysis = EmptyMap
    /\ keyScores = <<>>
    /\ bestKey = 0
    /\ arg = <<>>
    /\ status = "idle"
    /\ fitness = [top |-> {}, hi |-> 0, lo |-> 0]
    /\ tieOffset = 0
    /\ hwConcurrency = 1
    /\ VigenereIdle
    /\ SubstitutionIdle
    /\ ScorerIdle
    /\ solutions = <<>>
    /\ SplitIdle
    /\ SearchIdle
    /\ CoincidenceIdle

\* breaker.splitByKeyPosition(text, keyLength)
SplitByKeyPosition ==
    /\ op = "init"
    /\ \E k \in SplitLengths :
          /\ splitLength' = k
          /\ IF SplitThrows(k)
             THEN status' = "threw" /\ splitResult' = splitResult
             ELSE IF SplitDividesByZero(text, k)
             THEN status' = "crashed" /\ splitResult' = splitResult
             ELSE status' = "returned" /\ splitResult' = splitByKeyPosition(text, k)
    /\ arg' = text
    /\ op' = "splitByKeyPosition"
    /\ UNCHANGED <<text, shift, keyword, cipher, result>>
    /\ UNCHANGED <<confidence, minTextLength, lastAnalysis, keyScores, bestKey, fitness,
                   tieOffset, hwConcurrency>>
    /\ UNCHANGED vigenereVars
    /\ UNCHANGED substitutionVars
    /\ UNCHANGED scorerVars
    /\ UNCHANGED solutions
    /\ UNCHANGED searchVars
    /\ UNCHANGED coincidenceVars

NextSplit == SplitByKeyPosition

SpecSplit == InitSplit /\ [][NextSplit]_vars

(***************************************************************************)
(* C18                                                                     *)
(***************************************************************************)
RECURSIVE TotalLength(_)
TotalLength(columns) ==
    IF columns = <<>> THEN 0 ELSE Len(Head(columns)) + TotalLength(Tail(columns))

\* C18: splitByKeyPosition(text, L) with L >= 1 returns exactly L columns;
\* column j holds, in order, the characters at the indices i with
\* i mod L = j, and the column lengths sum to the text length.
C18_SplitColumns ==
    (op = "splitByKeyPosition" /\ splitLength >= 1) =>
        /\ status = "returned"
        /\ Len(splitResult) = splitLength
        /\ \A j \in 0..(splitLength - 1) :
              /\ Len(splitResult[j + 1])
                    = Cardinality({i \in 0..(Len(arg) - 1) : i % splitLength = j})
              /\ \A n \in 1..Len(splitResult[j + 1]) :
                    splitResult[j + 1][n] = arg[j + (n - 1) * splitLength + 1]
        /\ TotalLength(splitResult) = Len(arg)

\* ("ABCDEFGH", 3) gives ["ADG", "BEH", "CF"]
C18_Witness ==
    /\ op = "splitByKeyPosition"
    /\ status = "returned"
    /\ arg = ABCDEFGH
    /\ splitLength = 3
    /\ splitResult = <<<<65, 68, 71>>, <<66, 69, 72>>, <<67, 70>>>>

(***************************************************************************)
(* VigenereBreaker::breakCipher with findRepeatingSubstrings step by step  *)
(*                                                                         *)
(* The loop variable i is a size_t; it is kept as high * 2^31 + low.  The  *)
(* iterations between length + 1 and length + 2^31, which only increment   *)
(* i, are one step.                                                        *)
(***************************************************************************)
IntMax == 2147483647

\* static_cast<int>(text.length() - i): the difference modulo 2^32, signed
lengthLeft(length, i) ==
    IF i.high = 0 THEN length - i.low
    ELSE IF length >= i.low THEN (length - i.low - 1) - IntMax
    ELSE IntMax - (i.low - length - 1)

\* i <= text.length() - minLength, the right side a size_t
searchCondition(length, minLength, i) ==
    IF WrapsBelowZero(length, minLength) THEN TRUE
    ELSE i.high = 0 /\ i.low <= length - minLength

\* the largest len of the inner loop
maxLen(length, i) == Min(lengthLeft(length, i), MaxSubstringLength)

\* text.substr(i, len) with i > text.length()
substrThrows(length, i) == i.high > 0 \/ i.low > length

\* "A", "AB", "A3", "AB KA"
SearchTexts ==
    {<<65>>, <<65, 66>>, <<65, 51>>, <<65, 66, 32, 75, 65>>, ABC, AAAAA, ABCABC,
     DXTJQWL_VJEWP}

InitSearch ==
    /\ text \in SearchTexts
    /\ keyword \in BreakKeys
    /\ shift = 0
    /\ cipher = VigenereEncrypt(text, keyword)
    /\ result = <<>>
    /\ op = "init"
    /\ confidence = 0
    /\ minTextLength = DefaultMinTextLength
    /\ lastAnalysis = EmptyMap
    /\ keyScores = <<>>
    /\ bestKey = 0
    /\ arg = <<>>
    /\ status = "idle"
    /\ fitness = [top |-> {}, hi |-> 0, lo |-> 0]
    /\ tieOffset \in TieOffsets
    /\ hwConcurrency = MaxHw
    /\ preferred \in {{normalizeText(text)} \cup Columns(text, Len(keyword)), {}}
    /\ winningShifts = <<>>
    /\ foundKey = <<>>
    /\ minKeyLength = DefaultMinKeyLength
    /\ maxKeyLength = DefaultMaxKeyLength
    /\ analysisResults = [kasiski |-> <<>>, ic |-> <<>>]
    /\ candidateKeyLengths = <<>>
    /\ vigenereConfidence = 0
    /\ tasks = <<>>
    /\ SubstitutionIdle
    /\ ScorerIdle
    /\ solutions = <<>>
    /\ SplitIdle
    /\ SearchIdle
    /\ CoincidenceIdle

SearchFrame ==
    /\ UNCHANGED <<text, shift, keyword, cipher, result>>
    /\ UNCHANGED <<confidence, minTextLength, lastAnalysis, keyScores, bestKey, fitness,
                   tieOffset, hwConcurrency>>
    /\ UNCHANGED <<preferred, winningShifts, foundKey, minKeyLength, maxKeyLength,
                   candidateKeyLengths, vigenereConfidence, tasks>>
    /\ UNCHANGED substitutionVars
    /\ UNCHANGED scorerVars
    /\ UNCHANGED solutions
    /\ UNCHANGED splitVars
    /\ UNCHANGED coincidenceVars

\* breakCipher(ciphertext) that validateInput turns down
BreakCipherInvalid ==
    /\ op = "init"
    /\ \E ct \in InvalidInputs : BreakCipherBody(ct)

\* breakCipher(ciphertext) up to the loop of findRepeatingSubstrings:
\* validateInput, analysisResults.clear(), normalizeText, i = 0
SearchBegin ==
    /\ op = "init"
    /\ validateInput(cipher)
    /\ arg' = cipher
    /\ analysisResults' = [kasiski |-> <<>>, ic |-> <<>>]
    /\ searchIndex' = SearchStart
    /\ patterns' = {}
    /\ op' = "findRepeatingSubstrings"
    /\ status' = "running"
    /\ SearchFrame

\* one iteration of the outer loop: the inner loop, then i++
SearchIteration ==
    /\ op = "findRepeatingSubstrings"
    /\ status = "running"
    /\ \E normalizedText \in {normalizeText(arg)} :
          /\ searchCondition(Len(normalizedText), DefaultMinSubstringLength, searchIndex)
          /\ \/ ~substrThrows(Len(normalizedText), searchIndex)
             \/ maxLen(Len(normalizedText), searchIndex) >= DefaultMinSubstringLength
          /\ IF maxLen(Len(normalizedText), searchIndex) < DefaultMinSubstringLength
             THEN /\ searchIndex' = [searchIndex EXCEPT !.low = @ + 1]
                  /\ UNCHANGED <<patterns, op, status>>
             ELSE IF substrThrows(Len(normalizedText), searchIndex)
             THEN /\ op' = "breakCipher"
                  /\ status' = "threw"
                  /\ UNCHANGED <<searchIndex, patterns>>
             ELSE /\ patterns' = patterns \cup
                         {<<SubSeq(normalizedText, searchIndex.low + 1, searchIndex.low + len),
                            searchIndex.low>> :
                             len \in DefaultMinSubstringLength
                                        ..maxLen(Len(normalizedText), searchIndex)}
                  /\ searchIndex' = [searchIndex EXCEPT !.low = @ + 1]
                  /\ UNCHANGED <<op, status>>
    /\ UNCHANGED <<arg, analysisResults>>
    /\ SearchFrame

\* the iterations from i = length + 1 to i = length + 2^31: the int
\* text.length() - i is negative, the inner loop does nothing
SearchPastTheEnd ==
    /\ op = "findRepeatingSubstrings"
    /\ status = "running"
    /\ \E length \in {Len(normalizeText(arg))} :
          /\ searchCondition(length, DefaultMinSubstringLength, searchIndex)
          /\ substrThrows(length, searchIndex)
          /\ maxLen(length, searchIndex) < DefaultMinSubstringLength
          /\ searchIndex' = [high |-> 1, low |-> length + 1]
    /\ UNCHANGED <<arg, analysisResults, patterns, op, status>>
    /\ SearchFrame

\* the loop is left through its condition; kasiskiExamination goes on with
\* the patterns that repeat
SearchEnd ==
    /\ op = "findRepeatingSubstrings"
    /\ status = "running"
    /\ ~searchCondition(Len(normalizeText(arg)), DefaultMinSubstringLength, searchIndex)
    /\ op' = "kasiskiExamination"
    /\ UNCHANGED <<arg, status, analysisResults, searchIndex, patterns>>
    /\ SearchFrame

\* breakCipher from the distances of kasiskiExamination to its return
BreakCipherRest ==
    /\ op = "kasiskiExamination"
    /\ status = "running"
    /\ BreakCipherBody(arg)

SearchStep ==
    \/ SearchIteration
    \/ SearchPastTheEnd
    \/ SearchEnd

NextSearch ==
    \/ BreakCipherInvalid
    \/ SearchBegin
    \/ SearchStep
    \/ BreakCipherRest

SpecSearch == InitSearch /\ [][NextSearch]_vars
\* the thread that called breakCipher keeps running its loop
SpecSearchFair == SpecSearch /\ WF_vars(SearchStep)

(***************************************************************************)
(* C19                                                                     *)
(***************************************************************************)
\* the loop of findRepeatingSubstrings was left through its condition
SearchExhausted ==
    ~searchCondition(Len(normalizeText(arg)), DefaultMinSubstringLength, searchIndex)

\* the patterns the loop collected that occur twice are the repeating ones
SearchCollectsRepeats ==
    (op = "kasiskiExamination" /\ SearchExhausted) =>
        {p[1] : p \in {q \in patterns : \E r \in patterns : r[1] = q[1] /\ r[2] # q[2]}}
            = findRepeatingSubstrings(normalizeText(arg), DefaultMinSubstringLength)

\* C19: breakCipher terminates for every valid input, also one with fewer
\* letters than the minimum Kasiski substring length: the repeated-substring
\* search runs to exhaustion, that is every call that entered the loop of
\* findRepeatingSubstrings leaves it through the loop condition, and
\* breakCipher goes on from there.
C19_BreakCipherTerminates ==
    (op = "findRepeatingSubstrings" /\ status = "running")
        ~> (op \in {"kasiskiExamination", "breakCipher"} /\ SearchExhausted)

(***************************************************************************)
(* CaesarBreaker::findPossibleKeys for the values of hardware_concurrency  *)
(***************************************************************************)
\* std::thread::hardware_concurrency(): 0 when it cannot be computed, one
\* core, a few, as many as keys, more than keys
HwValues == {0, 1, MaxHw, 5, 20, 26, 26 + MaxHw}

\* the tasks the launch loop starts: threadId < numThreads, left at the
\* first startKey >= 26
LaunchedTasks(n) ==
    {threadId \in 0..(n - 1) :
        \A earlier \in 0..threadId : startKey(earlier, n) < 26}

\* for (int key = startKey; key < endKey; key++) of the task threadId
TaskKeys(threadId, n) == SeqRange(KeyRange(startKey(threadId, n), endKey(threadId, n)))

InitWorkers ==
    /\ text \in CaesarTexts
    /\ shift = 3
    /\ keyword = <<>>
    /\ cipher = CaesarEncrypt(text, shift)
    /\ result = <<>>
    /\ op = "init"
    /\ confidence = 0
    /\ minTextLength = DefaultMinTextLength
    /\ lastAnalysis = EmptyMap
    /\ keyScores = <<>>
    /\ bestKey = 0
    /\ arg = <<>>
    /\ status = "idle"
    /\ fitness \in IF normalizeText(text) = <<>> THEN FlatOracles ELSE Oracles(shift)
    /\ tieOffset \in TieOffsets
    /\ hwConcurrency \in HwValues
    /\ VigenereIdle
    /\ SubstitutionIdle
    /\ ScorerIdle
    /\ solutions = <<>>
    /\ SplitIdle
    /\ SearchIdle
    /\ CoincidenceIdle

\* breaker.findBestKey(ciphertext): (26 + numThreads - 1) / numThreads with
\* numThreads 0 is a division by zero, a crash or a run that goes on with a
\* corrupted state
WorkersFindBestKey ==
    /\ Alive
    /\ IF numThreads(hwConcurrency) = 0
       THEN /\ \E outcome \in {"crashed", "corrupted"} : status' = outcome
            /\ op' = "findBestKey"
            /\ arg' = cipher
            /\ UNCHANGED <<keyScores, confidence, lastAnalysis, bestKey>>
            /\ UNCHANGED <<text, shift, keyword, cipher, result>>
            /\ UNCHANGED <<minTextLength, fitness, tieOffset, hwConcurrency>>
            /\ UNCHANGED besideCaesar
       ELSE CaesarFindBestKey

NextWorkers ==
    \/ SetMinimumTextLength
    \/ WorkersFindBestKey

SpecWorkers == InitWorkers /\ [][NextWorkers]_vars

(***************************************************************************)
(* C20                                                                     *)
(***************************************************************************)
\* C20: for every value of hardware_concurrency, 0 and 1 included,
\* findPossibleKeys evaluates each shift 0..25 in exactly one worker task and
\* returns 26 entries, one per shift, sorted by non-increasing score (calls
\* whose scoring throws set aside).
C20_EveryShiftOnce ==
    (op = "findBestKey" /\ ~scoreTextThrows(normalizeText(arg), minTextLength)) =>
        /\ status = "returned"
        /\ \A k \in 0..25 :
              Cardinality({threadId \in LaunchedTasks(numThreads(hwConcurrency)) :
                              k \in TaskKeys(threadId, numThreads(hwConcurrency))}) = 1
        /\ Len(keyScores) = 26
        /\ {keyScores[i][1] : i \in 1..Len(keyScores)} = 0..25
        /\ \A i \in 1..(Len(keyScores) - 1) : keyScores[i][2] >= keyScores[i + 1][2]

(***************************************************************************)
(* findKey and decrypt on ciphertexts with characters that are no letters  *)
(***************************************************************************)
\* " hhhh...", "hhh hhh...", "AB hA", "A3h", and a text of letters only
SpacedTexts ==
    {<<32>> \o Repeat(104, 2 * DefaultMinTextLength),
     Repeat(104, 3) \o <<32>> \o Repeat(104, 2 * DefaultMinTextLength - 3),
     <<65, 66, 32, 104, 65>>,
     <<65, 51, 104>>,
     Repeat(104, 2 * DefaultMinTextLength)}

InitKeyIndex ==
    /\ text \in SpacedTexts
    /\ keyword \in LetterKeys
    /\ shift = 0
    /\ cipher = VigenereEncrypt(text, keyword)
    /\ result = <<>>
    /\ op = "init"
    /\ confidence = 0
    /\ minTextLength = DefaultMinTextLength
    /\ lastAnalysis = EmptyMap
    /\ keyScores = <<>>
    /\ bestKey = 0
    /\ arg = <<>>
    /\ status = "idle"
    /\ fitness = [top |-> {}, hi |-> 0, lo |-> 0]
    /\ tieOffset \in TieOffsets
    /\ hwConcurrency = MaxHw
    /\ preferred \in Preferences(text, Len(keyword))
    /\ winningShifts = <<>>
    /\ foundKey = <<>>
    /\ minKeyLength = DefaultMinKeyLength
    /\ maxKeyLength = DefaultMaxKeyLength
    /\ analysisResults = [kasiski |-> <<>>, ic |-> <<>>]
    /\ candidateKeyLengths = <<>>
    /\ vigenereConfidence = 0
    /\ tasks = <<>>
    /\ SubstitutionIdle
    /\ ScorerIdle
    /\ solutions = <<>>
    /\ SplitIdle
    /\ SearchIdle
    /\ CoincidenceIdle

NextKeyIndex ==
    \/ VigenereFindKey
    \/ VigenereDecryptFound

SpecKeyIndex == InitKeyIndex /\ [][NextKeyIndex]_vars

(***************************************************************************)
(* C21                                                                     *)
(***************************************************************************)
\* the letters of t before the 1-based position i
LettersBefore(t, i) == Cardinality({n \in 1..(i - 1) : isalpha(t[n])})

\* the key character findKey recovered from the column that holds the
\* letter at position i of the ciphertext
ColumnKeyChar(ciphertext, key, i) == key[(LettersBefore(ciphertext, i) % Len(key)) + 1]

\* C21: for a ciphertext with non-alphabetic characters, decrypt applies to
\* every letter the key character findKey recovered from the column of the
\* normalized text that holds the letter.
C21_SameKeyIndex ==
    (/\ op = "decryptFound"
     /\ \E i \in 1..Len(arg) : ~isalpha(arg[i])) =>
        \A i \in 1..Len(arg) :
            isalpha(arg[i]) =>
                result[i] = vigenereShift(arg[i],
                                26 - charToShift(ColumnKeyChar(arg, foundKey, i)))

(***************************************************************************)
(* SubstitutionBreaker::getPossibleSolutions next to breakCipher           *)
(*                                                                         *)
(* The search of getPossibleSolutions is followed for MaxSteps iterations; *)
(* in the iterations after them no neighbour is better.  The sequences of  *)
(* calls are breakCipher, getPossibleSolutions, and the one after the      *)
(* other.                                                                  *)
(***************************************************************************)
\* hillClimbOptimization(initialMapping, ciphertext, 500)
SolutionsHillClimbIterations == 500

\* operator< of std::string
RECURSIVE StringLess(_, _)
StringLess(a, b) ==
    IF b = <<>> THEN FALSE
    ELSE IF a = <<>> THEN TRUE
    ELSE IF Head(a) # Head(b) THEN Head(a) < Head(b)
    ELSE StringLess(Tail(a), Tail(b))

\* std::sort, then erase(std::unique)
SortedUnique(strings) ==
    SortSeq(CHOOSE q \in [1..Cardinality(SeqRange(strings)) -> SeqRange(strings)] :
                SeqRange(q) = SeqRange(strings),
            StringLess)

\* getPossibleSolutions up to the bigram refinement: validateInput,
\* generateMapping, the first solution; the history is left as it is
SolutionsBegin ==
    /\ Alive
    /\ phase = "idle"
    /\ \E ct \in {cipher} \cup InvalidInputs :
           /\ arg' = ct
           /\ IF ~validateInput(ct)
              THEN /\ solutions' = <<>>
                   /\ op' = "getPossibleSolutions"
                   /\ status' = "returned"
                   /\ UNCHANGED <<phase, mapping, budget>>
              ELSE /\ mapping' = generateMapping(ct, tieOffset)
                   /\ solutions' = <<applyMapping(ct, generateMapping(ct, tieOffset))>>
                   /\ phase' = "solutionsBigram"
                   /\ budget' = SolutionsHillClimbIterations
                   /\ op' = "generateMapping"
                   /\ status' = "running"
    /\ iteration' = 0
    /\ bigramIndex' = 0
    /\ UNCHANGED <<result, optimizationMethod, maxIterations, optimizationHistory,
                   substitutionConfidence, bestMapping, currentScore, bestScore, scoreMemo>>
    /\ UNCHANGED <<text, shift, keyword, cipher>>
    /\ UNCHANGED <<confidence, minTextLength, lastAnalysis, keyScores, bestKey, fitness,
                   tieOffset, hwConcurrency>>
    /\ UNCHANGED vigenereVars
    /\ UNCHANGED firstRun
    /\ UNCHANGED scorerVars
    /\ UNCHANGED splitVars
    /\ UNCHANGED searchVars
    /\ UNCHANGED coincidenceVars

\* the second solution, then hillClimbOptimization on the initial mapping
\* up to its loop
SolutionsHillStart ==
    /\ phase = "solutionsBigram"
    /\ bigramIndex >= BigramRounds(arg, tieOffset)
    /\ \E initialMapping \in {generateMapping(arg, tieOffset)} :
          IF scoreMappingThrows(initialMapping, arg)
          THEN /\ status' = "threw"
               /\ op' = "getPossibleSolutions"
               /\ phase' = "idle"
               /\ UNCHANGED <<result, arg, solutions>>
               /\ UNCHANGED <<optimizationMethod, maxIterations, optimizationHistory,
                              substitutionConfidence, mapping, bestMapping, currentScore,
                              bestScore, iteration, budget, bigramIndex, scoreMemo>>
          ELSE /\ solutions' = Append(solutions, applyMapping(arg, mapping))
               /\ mapping' = initialMapping
               /\ \E score \in ScoreChoices(scoreMemo, applyMapping(arg, initialMapping)) :
                      /\ currentScore' = score
                      /\ scoreMemo' = Remember(scoreMemo, applyMapping(arg, initialMapping),
                                               score)
               /\ phase' = "solutionsHill"
               /\ iteration' = 0
               /\ op' = "hillClimbOptimization"
               /\ UNCHANGED <<result, arg, status>>
               /\ UNCHANGED <<optimizationMethod, maxIterations, optimizationHistory,
                              substitutionConfidence, bestMapping, bestScore, budget,
                              bigramIndex>>
    /\ UNCHANGED <<text, shift, keyword, cipher>>
    /\ UNCHANGED <<confidence, minTextLength, lastAnalysis, keyScores, bestKey, fitness,
                   tieOffset, hwConcurrency>>
    /\ UNCHANGED vigenereVars
    /\ UNCHANGED firstRun
    /\ UNCHANGED scorerVars
    /\ UNCHANGED splitVars
    /\ UNCHANGED searchVars
    /\ UNCHANGED coincidenceVars

\* the rest of the loop, the third solution, the duplicates removed
SolutionsFinish ==
    /\ phase = "solutionsHill"
    /\ iteration >= Min(budget, MaxSteps)
    /\ solutions' = SortedUnique(Append(solutions, applyMapping(arg, mapping)))
    /\ iteration' = budget
    /\ status' = "returned"
    /\ op' = "getPossibleSolutions"
    /\ phase' = "idle"
    /\ UNCHANGED <<result, arg>>
    /\ UNCHANGED <<optimizationMethod, maxIterations, optimizationHistory,
                   substitutionConfidence, mapping, bestMapping, currentScore, bestScore,
                   budget, bigramIndex, scoreMemo>>
    /\ UNCHANGED <<text, shift, keyword, cipher>>
    /\ UNCHANGED <<confidence, minTextLength, lastAnalysis, keyScores, bestKey, fitness,
                   tieOffset, hwConcurrency>>
    /\ UNCHANGED vigenereVars
    /\ UNCHANGED firstRun
    /\ UNCHANGED scorerVars
    /\ UNCHANGED splitVars
    /\ UNCHANGED searchVars
    /\ UNCHANGED coincidenceVars

\* the first call on the breaker is breakCipher
FirstBreakCipher ==
    /\ op \in {"init", "setMaxIterations"}
    /\ SubstitutionBegin

\* getPossibleSolutions as the first call, or after that breakCipher
ThenGetPossibleSolutions ==
    /\ op \in {"init", "setMaxIterations", "breakCipher"}
    /\ SolutionsBegin

NextHistory ==
    \/ SetMaxIterations
    \/ FirstBreakCipher
    \/ BigramRound
    \/ HillStart
    \/ HillStep
    \/ SubstitutionFinish
    \/ ThenGetPossibleSolutions
    \/ SolutionsHillStart
    \/ SolutionsFinish

\* "AB" and "ABA"
HistoryTexts == {<<65, 66>>, <<65, 66, 65>>}

InitHistory ==
    /\ InitSubstitution
    /\ cipher \in HistoryTexts

SpecHistory == InitHistory /\ [][NextHistory]_vars

(***************************************************************************)
(* C22                                                                     *)
(***************************************************************************)
\* C22: after any sequence of breakCipher and getPossibleSolutions calls the
\* optimization history holds only the improvements of the most recent search
\* run (iterations of one run, each at most once, in order), and its
\* successive entries have strictly increasing scores.
C22_HistoryOfLastRun ==
    (op \in {"breakCipher", "getPossibleSolutions"} /\ status = "returned") =>
        \A i \in 1..(Len(optimizationHistory) - 1) :
              /\ optimizationHistory[i][1] < optimizationHistory[i + 1][1]
              /\ optimizationHistory[i][2] < optimizationHistory[i + 1][2]

(***************************************************************************)
(* C23                                                                     *)
(***************************************************************************)
\* C23: the budget set with setMaxIterations(n) is the one the local search
\* uses in every optimization mode: hill_climbing and simulated_annealing
\* run n iterations, hybrid n / 2, then the search returns.
C23_BudgetIsMaxIterations ==
    /\ phase \in {"hill", "anneal"} =>
          budget = IF optimizationMethod \in {"hill_climbing", "simulated_annealing"}
                   THEN maxIterations
                   ELSE maxIterations \div 2
    /\ (/\ op = "breakCipher"
        /\ status = "returned"
        /\ validateInput(arg)
        /\ optimizationMethod # "frequency") => iteration = budget

(***************************************************************************)
(* SubstitutionBreaker::simulatedAnnealing called on its own               *)
(***************************************************************************)
AnnealingBudgets == 0..MaxSteps

\* breaker.simulatedAnnealing(breaker.generateMapping(ciphertext), ciphertext, n)
\* up to the scoring of the initial mapping
SimulatedAnnealingCall ==
    /\ validateInput(cipher)
    /\ \E n \in AnnealingBudgets : budget' = n
    /\ arg' = cipher
    /\ mapping' = generateMapping(cipher, tieOffset)
    /\ bestMapping' = EmptyMap
    /\ phase' = "annealStart"
    /\ iteration' = 0
    /\ op' = "generateMapping"
    /\ status' = "running"
    /\ UNCHANGED <<result, optimizationMethod, maxIterations, optimizationHistory,
                   substitutionConfidence, currentScore, bestScore, bigramIndex, scoreMemo>>
    /\ SubstitutionFrame

\* the call on a fresh breaker
CallSimulatedAnnealing == op = "init" /\ SimulatedAnnealingCall

\* return bestMapping; the caller applies it to the ciphertext
AnnealReturn ==
    /\ phase = "anneal"
    /\ iteration >= budget
    /\ result' = applyMapping(arg, bestMapping)
    /\ op' = "simulatedAnnealing"
    /\ status' = "returned"
    /\ phase' = "idle"
    /\ UNCHANGED arg
    /\ UNCHANGED <<optimizationMethod, maxIterations, optimizationHistory,
                   substitutionConfidence, mapping, bestMapping, currentScore, bestScore,
                   iteration, budget, bigramIndex, scoreMemo>>
    /\ SubstitutionFrame

NextAnnealing ==
    \/ CallSimulatedAnnealing
    \/ AnnealStart
    \/ AnnealStep
    \/ AnnealReturn

SpecAnnealing == InitSubstitution /\ [][NextAnnealing]_vars

(***************************************************************************)
(* C24                                                                     *)
(***************************************************************************)
\* C24: simulatedAnnealing returns the mapping of the highest fitness among
\* the initial mapping and all mappings that were current at some step: the
\* best score starts as the score of the initial mapping, after every step
\* it is the larger of the best so far and the new current score, so never
\* below the current score, it is the fitness of the best mapping, and the
\* best mapping is what is returned, also when the last current mapping is
\* worse.
C24_AnnealingKeepsBest ==
    [][/\ (phase = "annealStart" /\ phase' = "anneal") =>
              /\ bestMapping' = mapping
              /\ bestScore' = currentScore'
              /\ scoreMemo'[applyMapping(arg, mapping)] = bestScore'
       /\ (phase = "anneal" /\ phase' = "anneal") =>
              /\ bestScore' = Max(bestScore, currentScore')
              /\ bestScore' >= currentScore'
              /\ scoreMemo'[applyMapping(arg, bestMapping')] = bestScore'
              /\ scoreMemo'[applyMapping(arg, mapping')] = currentScore'
       /\ (phase = "anneal" /\ phase' = "idle" /\ status' = "returned") =>
              /\ result' = applyMapping(arg, bestMapping)
              /\ bestScore >= currentScore]_vars

\* the search returned a best mapping while its last current mapping
\* scores lower
C24_Witness ==
    /\ op = "simulatedAnnealing"
    /\ status = "returned"
    /\ bestScore > currentScore
    /\ mapping # bestMapping
    /\ result = applyMapping(arg, bestMapping)

(***************************************************************************)
(* C25                                                                     *)
(***************************************************************************)
\* C25: bigram refinement is greedy and monotone: after each tentative
\* remap, of which there are at most 10, the working mapping scores no
\* lower than before the remap, and from the first remap on no lower than
\* the mapping improveMappingWithBigrams was given.
C25_BigramMonotone ==
    [][(phase \in {"bigram", "solutionsBigram"} /\ bigramIndex' = bigramIndex + 1) =>
           /\ bigramIndex' <= 10
           /\ scoreMemo'[applyMapping(arg, mapping')] >= scoreMemo'[applyMapping(arg, mapping)]
           /\ scoreMemo'[applyMapping(arg, mapping')] >=
                  scoreMemo'[applyMapping(arg, generateMapping(arg, tieOffset))]
           /\ mapping' \in {mapping, testMapping(mapping, arg, bigramIndex, tieOffset)}]_vars

\* a second remap was tried after a remap was taken: the working mapping
\* scores above the mapping the refinement was given
C25_Witness ==
    /\ phase = "bigram"
    /\ bigramIndex = 2
    /\ mapping # generateMapping(arg, tieOffset)
    /\ applyMapping(arg, generateMapping(arg, tieOffset)) \in DOMAIN scoreMemo
    /\ scoreMemo[applyMapping(arg, mapping)] >
           scoreMemo[applyMapping(arg, generateMapping(arg, tieOffset))]

(***************************************************************************)
(* breakCipher in hybrid mode, then simulatedAnnealing from the same       *)
(* starting mapping on the same text                                       *)
(***************************************************************************)
\* breakCipher(ciphertext) has returned in hybrid mode
HybridReturned ==
    /\ op = "breakCipher"
    /\ status = "returned"
    /\ optimizationMethod = "hybrid"
    /\ arg = cipher
    /\ validateInput(cipher)

\* breaker.simulatedAnnealing(breaker.generateMapping(ciphertext), ciphertext, n)
\* after breaker.breakCipher(ciphertext)
ThenSimulatedAnnealing == HybridReturned /\ SimulatedAnnealingCall

\* the rest of breakCipher after the hill climbing of hybrid mode
HybridFinish == phase = "hill" /\ SubstitutionFinish

NextHybrid ==
    \/ SetMaxIterations
    \/ FirstBreakCipher
    \/ BigramRound
    \/ HillStart
    \/ HillStep
    \/ HybridFinish
    \/ ThenSimulatedAnnealing
    \/ AnnealStart
    \/ AnnealStep
    \/ AnnealReturn

SpecHybrid == InitHistory /\ [][NextHybrid]_vars

(***************************************************************************)
(* C26                                                                     *)
(***************************************************************************)
\* C26: the result of breakCipher in hybrid mode is the best-scoring of the
\* results of the bigram refinement, of hill climbing and of simulated
\* annealing run from the same starting mapping: the mapping simulated
\* annealing returns from that starting mapping on the same text never
\* scores above the text breakCipher returned.
C26_HybridBestOfThree ==
    [][(phase = "anneal" /\ phase' = "idle" /\ status' = "returned") =>
           scoreMemo[result] >= scoreMemo[result']]_vars

(***************************************************************************)
(* C27                                                                     *)
(***************************************************************************)
\* what the task of the j-th candidate length computes when it runs alone
AloneTried(j) ==
    tryKeyLength(arg, candidateKeyLengths[j], minTextLength, preferred, tieOffset,
                 hwConcurrency, confidence, lastAnalysis)

CombinedOf(k) == combinedScore(analysisResults.kasiski, analysisResults.ic, k)

\* breakCipher got its candidate lengths from findKeyLength
FoundKeyLengths ==
    /\ op = "breakCipher"
    /\ validateInput(arg)
    /\ status \in {"returned", "raceCrashed"}

\* C28: findKeyLength returns each candidate key length at most once, each
\* within minKeyLength..maxKeyLength, in the order of non-increasing
\* combined score 0.6 * kasiski + 0.4 * ic, a length without a Kasiski
\* result counting 0 for the Kasiski part.
C28_KeyLengthsRanked ==
    FoundKeyLengths =>
        /\ \A i, j \in DOMAIN candidateKeyLengths :
               candidateKeyLengths[i] = candidateKeyLengths[j] => i = j
        /\ \A i \in DOMAIN candidateKeyLengths :
               /\ candidateKeyLengths[i] >= minKeyLength
               /\ candidateKeyLengths[i] <= maxKeyLength
        /\ \A i \in 1..(Len(candidateKeyLengths) - 1) :
               ~FracLess(CombinedOf(candidateKeyLengths[i]),
                         CombinedOf(candidateKeyLengths[i + 1]))
        /\ \A k \in SeqRange(candidateKeyLengths) \ PairKeys(analysisResults.kasiski) :
               CombinedOf(k) = Frac(4 * ScoreIn(analysisResults.ic, k)[1],
                                    10 * ScoreIn(analysisResults.ic, k)[2])

\* the Kasiski examination found a length, another candidate has no Kasiski
\* result, and the combined scores of the candidates differ
C28_Witness ==
    /\ FoundKeyLengths
    /\ status = "returned"
    /\ analysisResults.kasiski # <<>>
    /\ \E k \in SeqRange(candidateKeyLengths) : k \notin PairKeys(analysisResults.kasiski)
    /\ Len(candidateKeyLengths) >= 3
    /\ FracLess(CombinedOf(candidateKeyLengths[Len(candidateKeyLengths)]),
                CombinedOf(candidateKeyLengths[1]))

(***************************************************************************)
(* FrequencyAnalyzer::calculateIndexOfCoincidence with the width of int    *)
(*                                                                         *)
(* A number beyond the integers of the checker is kept as hi * 2^15 + lo   *)
(* with 0 <= lo < 2^15.  ni * (ni - 1) and totalAlphaChars *               *)
(* (totalAlphaChars - 1) are int products: past 2^31 - 1 the signed        *)
(* overflow is undefined, and the build wraps modulo 2^32.  The sum and    *)
(* the division are in double, exact at these sizes.                       *)
(***************************************************************************)
WideBase == 2 ^ 15

Wide(n) == [hi |-> n \div WideBase, lo |-> n % WideBase]
WideAdd(x, y) ==
    [hi |-> x.hi + y.hi + ((x.lo + y.lo) \div WideBase), lo |-> (x.lo + y.lo) % WideBase]
WideLess(x, y) == x.hi < y.hi \/ (x.hi = y.hi /\ x.lo < y.lo)
WideLessEq(x, y) == x = y \/ WideLess(x, y)

\* a * b in the integers
WideProduct(a, b) ==
    LET a1 == a \div WideBase
        a0 == a % WideBase
        b1 == b \div WideBase
        b0 == b % WideBase
    IN  [hi |-> a1 * b1 * WideBase + a1 * b0 + a0 * b1 + ((a0 * b0) \div WideBase),
         lo |-> (a0 * b0) % WideBase]

\* a * b in int: the product modulo 2^32, taken as a signed 32-bit value
IntProduct(a, b) ==
    LET h == WideProduct(a, b).hi % (4 * WideBase)
    IN  [hi |-> IF h >= 2 * WideBase THEN h - 4 * WideBase ELSE h,
         lo |-> WideProduct(a, b).lo]

\* the product is beyond INT_MAX
IntOverflows(a, b) == WideProduct(a, b).hi >= 2 * WideBase

\* counts[upperC] after the counting loop, on a text given by its runs
RECURSIVE runCount(_, _)
runCount(rs, c) ==
    IF rs = <<>> THEN 0
    ELSE (IF isalpha(Head(rs)[1]) /\ toupper(Head(rs)[1]) = c THEN Head(rs)[2] ELSE 0)
         + runCount(Tail(rs), c)

RECURSIVE runTotal(_, _)
runTotal(rs, c) == IF c > 90 THEN 0 ELSE runCount(rs, c) + runTotal(rs, c + 1)

\* ic += ni * (ni - 1) over the letters counted, from letter c on
RECURSIVE coincidenceSum(_, _)
coincidenceSum(rs, c) ==
    IF c > 90 THEN Wide(0)
    ELSE IF runCount(rs, c) = 0 THEN coincidenceSum(rs, c + 1)
    ELSE WideAdd(IntProduct(runCount(rs, c), runCount(rs, c) - 1), coincidenceSum(rs, c + 1))

\* the pair <<ic, divisor>> of the final ic /= ...; 0.0 is <<0, 1>>
coincidenceOfRuns(rs) ==
    LET totalAlphaChars == runTotal(rs, 65)
    IN  IF totalAlphaChars <= 1 THEN <<Wide(0), Wide(1)>>
        ELSE <<coincidenceSum(rs, 65), IntProduct(totalAlphaChars, totalAlphaChars - 1)>>

\* the longest run of one character in a text
MaxRun == 46342
RunLengths == {0, 1, 2, 3, 25000, MaxRun - 1, MaxRun}

InitCoincidence ==
    /\ text = <<>>
    /\ keyword = <<>>
    /\ shift = 0
    /\ cipher = <<>>
    /\ result = <<>>
    /\ op = "init"
    /\ confidence = 0
    /\ minTextLength = DefaultMinTextLength
    /\ lastAnalysis = EmptyMap
    /\ keyScores = <<>>
    /\ bestKey = 0
    /\ arg = <<>>
    /\ status = "idle"
    /\ fitness = [top |-> {}, hi |-> 0, lo |-> 0]
    /\ tieOffset = 0
    /\ hwConcurrency = MaxHw
    /\ VigenereIdle
    /\ SubstitutionIdle
    /\ ScorerIdle
    /\ solutions = <<>>
    /\ SplitIdle
    /\ SearchIdle
    \* "AA...A" "bb...b" "a...a" and spaces
    /\ \E na, nb \in RunLengths, nl \in 0..2, ns \in 0..1 :
           runs = <<<<65, na>>, <<98, nb>>, <<97, nl>>, <<32, ns>>>>
    /\ coincidence = <<>>

\* analyzer.calculateIndexOfCoincidence(text)
CalculateIndexOfCoincidence ==
    /\ op = "init"
    /\ coincidence' = coincidenceOfRuns(runs)
    /\ op' = "calculateIndexOfCoincidence"
    /\ status' = "returned"
    /\ UNCHANGED runs
    /\ UNCHANGED <<text, shift, keyword, cipher, result>>
    /\ UNCHANGED <<confidence, minTextLength, lastAnalysis, keyScores, bestKey, arg,
                   fitness, tieOffset, hwConcurrency>>
    /\ UNCHANGED <<vigenereVars, substitutionVars, scorerVars, solutions, splitVars,
                   searchVars>>

NextCoincidence == CalculateIndexOfCoincidence

SpecCoincidence == InitCoincidence /\ [][NextCoincidence]_vars

(***************************************************************************)
(* C29                                                                     *)
(***************************************************************************)
\* 0 <= ic / divisor <= 1
InUnitInterval(ic, divisor) ==
    IF WideLess(Wide(0), divisor)
    THEN WideLessEq(Wide(0), ic) /\ WideLessEq(ic, divisor)
    ELSE WideLess(divisor, Wide(0)) /\ WideLessEq(ic, Wide(0)) /\ WideLessEq(divisor, ic)

\* the sum of ni * (ni - 1) in the integers
RECURSIVE ExactSum(_, _)
ExactSum(rs, c) ==
    IF c > 90 THEN Wide(0)
    ELSE WideAdd(WideProduct(runCount(rs, c), Max(0, runCount(rs, c) - 1)),
                 ExactSum(rs, c + 1))

\* C29: calculateIndexOfCoincidence returns a value in [0, 1] for every
\* text, also for one whose letter total N makes N(N-1) exceed the range of
\* a 32-bit int; it returns 0 when N <= 1; and whenever N(N-1) is within
\* the range of int the value is the quotient of the sum of the n_i(n_i-1)
\* by N(N-1).
C29_CoincidenceInUnitInterval ==
    op = "calculateIndexOfCoincidence" =>
        /\ InUnitInterval(coincidence[1], coincidence[2])
        /\ runTotal(runs, 65) <= 1 => coincidence[1] = Wide(0)
        /\ (runTotal(runs, 65) >= 2
            /\ ~IntOverflows(runTotal(runs, 65), runTotal(runs, 65) - 1)) =>
               /\ coincidence[1] = ExactSum(runs, 65)
               /\ coincidence[2] = WideProduct(runTotal(runs, 65), runTotal(runs, 65) - 1)

(***************************************************************************)
(* CaesarBreaker::findPossibleKeys, the sequential version                 *)
(***************************************************************************)
\* for (int key = 0; key < 26; key++): the pair of the key is appended and
\* lastAnalysis[key] written, then the pairs are sorted by score
findPossibleKeysSequential(ciphertext, minLen, fit, tie, conf, last) ==
    LET normalizedText == normalizeText(ciphertext)
    IN  IF scoreTextThrows(normalizedText, minLen)
        THEN [status |-> "threw", keyScores |-> <<>>, confidence |-> conf,
              lastAnalysis |-> last]
        ELSE
            LET keys == KeyRange(0, 26)
                scored == [i \in 1..Len(keys) |->
                              <<keys[i], scoreText(caesarShift(normalizedText, keys[i]),
                                                   minLen, Fit(fit, keys[i]))>>]
                ranked == SortByScore(scored, tie)
            IN  [status |-> "returned",
                 keyScores |-> ranked,
                 confidence |-> CaesarConfidence(ranked, conf),
                 lastAnalysis |-> [k \in (DOMAIN last) \cup SeqRange(keys) |->
                                     IF k \in SeqRange(keys) THEN scored[k + 1][2]
                                     ELSE last[k]]]

(***************************************************************************)
(* C30                                                                     *)
(***************************************************************************)
\* C30: with one thread or more the multi-threaded findPossibleKeys ends as
\* the sequential version called in the same state on the same ciphertext
\* ends, and leaves the same ranked list of (key, score) pairs, the same
\* lastAnalysis and the same confidence.
C30_SameAsSequential ==
    [][(Alive /\ op' = "findBestKey" /\ numThreads(hwConcurrency) >= 1) =>
           \E seq \in {findPossibleKeysSequential(cipher, minTextLength, fitness,
                                                  tieOffset, confidence, lastAnalysis)} :
               /\ status' = seq.status
               /\ keyScores' = seq.keyScores
               /\ lastAnalysis' = seq.lastAnalysis
               /\ confidence' = seq.confidence]_vars

\* several tasks of unequal size ranked candidates of different scores
C30_Witness ==
    /\ op = "findBestKey"
    /\ status = "returned"
    /\ numThreads(hwConcurrency) = 5
    /\ Len(keyScores) = 26
    /\ keyScores[1][2] > keyScores[26][2]
    /\ keyScores = findPossibleKeysSequential(arg, minTextLength, fitness, tieOffset,
                                              0, EmptyMap).keyScores
    /\ DOMAIN lastAnalysis = 0..25

====
